---- MODULE Spec2Model ----
(***************************************************************************)
(* itxml2pl: conversion of an iTunes Library.xml into per-playlist files.  *)
(*                                                                         *)
(* A Python str is modelled as a sequence of one-character strings, so     *)
(* that sanitizing, splitting, joining, case folding and substring tests   *)
(* are computed character by character as the code computes them.  A       *)
(* Python call that may raise is modelled as a record [exc, val]: exc is   *)
(* the name of the exception raised ("" when the call returns) and val is  *)
(* the value returned.                                                     *)
(***************************************************************************)
EXTENDS Integers, Sequences, FiniteSets, TLC

\* ------------------------------------------------------------------------
\* Python str and list primitives used by the program
\* ------------------------------------------------------------------------

Ok(v) == [exc |-> "", val |-> v]

Raise(e) == [exc |-> e, val |-> <<>>]

\* s.startswith(p)
StartsWith(s, p) ==
    /\ Len(p) <= Len(s)
    /\ SubSeq(s, 1, Len(p)) = p

\* index of the first occurrence of character ch in s, 0 when there is none
FindChar(s, ch) ==
    IF \E k \in 1..Len(s) : s[k] = ch
    THEN CHOOSE k \in 1..Len(s) : s[k] = ch /\ \A m \in 1..(k - 1) : s[m] # ch
    ELSE 0

\* s.split(sep) for a one-character separator: "a//b" gives ["a", "", "b"]
RECURSIVE Split(_, _)
SplitAt(s, sep, k) ==
    IF k = 0
    THEN <<s>>
    ELSE <<SubSeq(s, 1, k - 1)>> \o Split(SubSeq(s, k + 1, Len(s)), sep)

Split(s, sep) == SplitAt(s, sep, FindChar(s, sep))

\* sep.join(parts)
RECURSIVE Join(_, _)
Join(parts, sep) ==
    IF Len(parts) = 0 THEN <<>>
    ELSE IF Len(parts) = 1 THEN parts[1]
    ELSE parts[1] \o <<sep>> \o Join(Tail(parts), sep)

\* s.replace(sub, ""): every non-overlapping occurrence, scanning left to right
RECURSIVE RemoveAll(_, _)
RemoveAll(s, sub) ==
    IF Len(sub) = 0 \/ Len(s) < Len(sub) THEN s
    ELSE IF StartsWith(s, sub)
    THEN RemoveAll(SubSeq(s, Len(sub) + 1, Len(s)), sub)
    ELSE <<s[1]>> \o RemoveAll(Tail(s), sub)

\* s.replace(ch, rep) for a one-character ch and a replacement string rep
RECURSIVE ReplaceChar(_, _, _)
ReplaceChar(s, ch, rep) ==
    IF Len(s) = 0 THEN <<>>
    ELSE (IF s[1] = ch THEN rep ELSE <<s[1]>>) \o ReplaceChar(Tail(s), ch, rep)

UpperLetters ==
    <<"A", "B", "C", "D", "E", "F", "G", "H", "I", "J", "K", "L", "M",
      "N", "O", "P", "Q", "R", "S", "T", "U", "V", "W", "X", "Y", "Z">>

LowerLetters ==
    <<"a", "b", "c", "d", "e", "f", "g", "h", "i", "j", "k", "l", "m",
      "n", "o", "p", "q", "r", "s", "t", "u", "v", "w", "x", "y", "z">>

LowerChar(c) ==
    IF \E k \in 1..26 : UpperLetters[k] = c
    THEN LowerLetters[CHOOSE k \in 1..26 : UpperLetters[k] = c]
    ELSE c

\* s.lower()
Lower(s) == [k \in 1..Len(s) |-> LowerChar(s[k])]

\* sub in s
Contains(sub, s) ==
    \E k \in 0..(Len(s) - Len(sub)) : SubSeq(s, k + 1, k + Len(sub)) = sub

\* s.lstrip().rstrip(), for the blank character
RECURSIVE LStrip(_)
LStrip(s) ==
    IF Len(s) > 0 /\ s[1] = " " THEN LStrip(Tail(s)) ELSE s

RECURSIVE RStrip(_)
RStrip(s) ==
    IF Len(s) > 0 /\ s[Len(s)] = " " THEN RStrip(SubSeq(s, 1, Len(s) - 1)) ELSE s

Strip(s) == RStrip(LStrip(s))

Digits == <<"0", "1", "2", "3", "4", "5", "6", "7", "8", "9">>

DigitValue(c) == (CHOOSE k \in 1..10 : Digits[k] = c) - 1

\* int(text) of a decimal digit string
RECURSIVE ParseInt(_)
ParseInt(s) ==
    IF Len(s) = 0 THEN 0
    ELSE 10 * ParseInt(SubSeq(s, 1, Len(s) - 1)) + DigitValue(s[Len(s)])

\* the elements of a sequence, and a sequence without duplicates as a set
Range(f) == {f[k] : k \in DOMAIN f}

\* ------------------------------------------------------------------------
\* lib/sanitizers.py
\* ------------------------------------------------------------------------

invalid_chars == {"/", "\\", "\"", "'", "?", ":", "<", ">", "*", "|"}

\* the for loop of sanitize_path: each invalid character becomes "_"
ReplaceInvalid(entry) ==
    [k \in 1..Len(entry) |-> IF entry[k] \in invalid_chars THEN "_" ELSE entry[k]]

\* lines 23-24 and 26-27: a terminal and an initial period become "_"
ReplaceTrailingDot(e) ==
    IF e[Len(e)] = "." THEN SubSeq(e, 1, Len(e) - 1) \o <<"_">> ELSE e

ReplaceLeadingDot(e) ==
    IF e[1] = "." THEN <<"_">> \o Tail(e) ELSE e

\* sanitize_path(entry, attribute); entry[-1] raises IndexError on ""
sanitize_path(entry, attribute) ==
    IF attribute = "Name" THEN Ok(ReplaceInvalid(entry))
    ELSE IF Len(entry) = 0 THEN Raise("IndexError")
    ELSE Ok(ReplaceLeadingDot(ReplaceTrailingDot(ReplaceInvalid(entry))))

\* sanitize_xml(text): & first, then < and >
sanitize_xml(text) ==
    ReplaceChar(
        ReplaceChar(
            ReplaceChar(text, "&", <<"&", "a", "m", "p", ";">>),
            "<", <<"&", "l", "t", ";">>),
        ">", <<"&", "g", "t", ";">>)

\* ------------------------------------------------------------------------
\* The state: the configuration, the source document, the file system and
\* the position and local variables of parse_xml
\* ------------------------------------------------------------------------

VARIABLES
    cli_opts,             \* the option dict handed to parse_xml
    all_tracks,           \* Track Table: track ID -> track <dict> element
    playlists,            \* the <dict> elements of the playlist <array>, in order
    music_root_exists,    \* whether the music directory exists on disk
    music_files,          \* the regular files below the music directory
    rev_listing,          \* the order in which os.listdir lists a directory
    access,               \* what the operating system permits: to read the source
                          \* document, to write into the playlist directory
    disk,                 \* the regular files below the playlist directory
    dirs,                 \* the directories made below the playlist directory
    pc,                   \* where the run is: main, start, loop, walk, member, done,
                          \* aborted (parse_xml), complete, exited (main)
    exc,                  \* the exception that ended parse_xml, "" when none
    run,                  \* how many times the program was started
    i,                    \* index of the playlist the for loop is at
    j,                    \* index of the member the inner for loop is at
    pl_folders,           \* the folder table built by get_pl_folders
    total_playlists,
    all_tracks_in_pls,
    all_tracks_not_found,
    incomplete_playlists,
    pl_incomplete,
    track_paths,
    pl_tracks_not_found,
    pl_filepath,
    walk_id,              \* pl_parent_id of the current _parent_folder call
    path_so_far,          \* path_so_far of the current _parent_folder call
    depth,                \* number of _parent_folder frames on the stack
    pl_state,             \* per playlist entry: what the run did with it
    written,              \* the files opened for writing in this run
    disk_at_start,        \* the files as they were when this run started
    ev                    \* the outcome of the last loop body that ran

vars ==
    <<cli_opts, all_tracks, playlists, music_root_exists, music_files,
      rev_listing, access, disk, dirs, pc, exc, run, i, j, pl_folders,
      total_playlists, all_tracks_in_pls, all_tracks_not_found,
      incomplete_playlists, pl_incomplete, track_paths, pl_tracks_not_found,
      pl_filepath, walk_id, path_so_far, depth, pl_state, written, disk_at_start, ev>>

\* ------------------------------------------------------------------------
\* lib/parsers.py: _LibraryEntry, Track
\*
\* An element is a record: str maps the <key>s followed by a <string> to
\* their text, int maps the <key>s followed by an <integer> to their
\* digits, keys is the set of the other <key>s present (Compilation,
\* Folder), and a playlist's tracks is the list of its member track IDs.
\* ------------------------------------------------------------------------

FILE_EXT_MAP ==
    { <<<<"M", "P", "E", "G", " ", "a", "u", "d", "i", "o", " ", "f", "i", "l", "e">>,
        <<".", "m", "p", "3">>>>,
      <<<<"M", "P", "E", "G", "-", "4", " ", "v", "i", "d", "e", "o", " ", "f", "i", "l", "e">>,
        <<".", "m", "4", "a">>>>,
      <<<<"M", "P", "E", "G", "-", "4", " ", "a", "u", "d", "i", "o", " ", "f", "i", "l", "e">>,
        <<".", "m", "p", "4">>>>,
      <<<<"P", "u", "r", "c", "h", "a", "s", "e", "d", " ", "M", "P", "E", "G", "-", "4", " ",
          "v", "i", "d", "e", "o", " ", "f", "i", "l", "e">>,
        <<".", "m", "4", "v">>>>,
      <<<<"A", "A", "C", " ", "a", "u", "d", "i", "o", " ", "f", "i", "l", "e">>,
        <<".", "m", "4", "a">>>>,
      <<<<"P", "u", "r", "c", "h", "a", "s", "e", "d", " ", "A", "A", "C", " ",
          "a", "u", "d", "i", "o", " ", "f", "i", "l", "e">>,
        <<".", "m", "4", "a">>>>,
      <<<<"M", "a", "t", "c", "h", "e", "d", " ", "A", "A", "C", " ",
          "a", "u", "d", "i", "o", " ", "f", "i", "l", "e">>,
        <<".", "m", "4", "a">>>>,
      <<<<"A", "I", "F", "F", " ", "a", "u", "d", "i", "o", " ", "f", "i", "l", "e">>,
        <<".", "a", "i", "f">>>>,
      <<<<"W", "A", "V", " ", "a", "u", "d", "i", "o", " ", "f", "i", "l", "e">>,
        <<".", "w", "a", "v">>>> }

UnknownAlbum == <<"U", "n", "k", "n", "o", "w", "n", " ", "A", "l", "b", "u", "m">>

\* _LibraryEntry.get_str_attr(attr, path_sanitize); StrAttrResult is its
\* lines 220-223: the stripped text, sanitized on request.  The text of a
\* <string> element without content is None, and None has no lstrip
StrAttrResult(result, attr, path_sanitize) ==
    IF path_sanitize THEN sanitize_path(result, attr) ELSE Ok(result)

get_str_attr(el, attr, path_sanitize) ==
    IF attr \notin DOMAIN el.str
    THEN Ok(IF attr = "Album" THEN UnknownAlbum ELSE <<>>)
    ELSE IF el.str[attr] = <<>> THEN Raise("AttributeError")
    ELSE StrAttrResult(Strip(el.str[attr]), attr, path_sanitize)

\* lines 258-266 as they would be if the disc count were not compared with 1
DiscPrefixAnyCount(el) ==
    IF "Disc Count" \in DOMAIN el.int /\ "Disc Number" \in DOMAIN el.int
    THEN el.int["Disc Number"] \o <<"-">>
    ELSE <<>>

\* lines 258-266: the disc number and "-" of a multi-disc album, else ""
DiscPrefix(el) ==
    IF "Disc Count" \in DOMAIN el.int
       /\ ParseInt(el.int["Disc Count"]) > 1
       /\ "Disc Number" \in DOMAIN el.int
    THEN el.int["Disc Number"] \o <<"-">>
    ELSE <<>>

\* lines 274-277: the track number padded to a width of 2, and a blank
PaddedTrackNum(tr_num) ==
    IF Len(tr_num) = 1 THEN <<"0">> \o tr_num \o <<" ">> ELSE tr_num \o <<" ">>

\* Track._get_track_num
get_track_num(el) ==
    IF "Track Number" \in DOMAIN el.int
    THEN DiscPrefix(el) \o PaddedTrackNum(el.int["Track Number"])
    ELSE DiscPrefix(el)

\* Track._get_file_ext: the extension of a kind, None when it is no key
FileExtOf(file_type) ==
    IF file_type.exc # "" THEN file_type
    ELSE IF \E kv \in FILE_EXT_MAP : kv[1] = file_type.val
    THEN Ok([none |-> FALSE,
             ext |-> (CHOOSE kv \in FILE_EXT_MAP : kv[1] = file_type.val)[2]])
    ELSE Ok([none |-> TRUE, ext |-> <<>>])

get_file_ext(el) == FileExtOf(get_str_attr(el, "Kind", TRUE))

priority_attrs == <<"Sort Album Artist", "Album Artist", "Sort Artist">>

\* the for loop of Track._get_artist_dir and what follows it
RECURSIVE ArtistDirFrom(_, _, _)
\* lines 326-332: the value of one attribute of the priority list
ArtistDirStep(el, attrs, artist, r) ==
    IF r.exc # "" THEN r
    ELSE IF r.val # <<>>
    THEN Ok(IF r.val = <<"V", "a", "r", "i", "o", "u", "s", " ",
                          "A", "r", "t", "i", "s", "t", "s">>
            THEN <<"V", "A", "R", "I", "O", "U", "S", " ",
                   "A", "R", "T", "I", "S", "T", "S">>
            ELSE r.val)
    ELSE ArtistDirFrom(el, Tail(attrs), artist)

ArtistDirFrom(el, attrs, artist) ==
    IF Len(attrs) = 0
    THEN Ok(IF artist # <<>> THEN artist
            ELSE <<"U", "n", "k", "n", "o", "w", "n", " ", "A", "r", "t", "i", "s", "t">>)
    ELSE ArtistDirStep(el, attrs, artist, get_str_attr(el, attrs[1], TRUE))

\* Track._get_artist_dir
get_artist_dir(el, artist) ==
    IF "Compilation" \in el.keys
    THEN Ok(<<"C", "o", "m", "p", "i", "l", "a", "t", "i", "o", "n", "s">>)
    ELSE ArtistDirFrom(el, priority_attrs, artist)

\* Track.__init__: the attributes in the order they are computed; exc is
\* the first exception raised
TrackAttrs(name, artist, album, track_num, artist_dir, file_ext) ==
    [exc        |-> IF artist.exc # "" THEN artist.exc
                    ELSE IF album.exc # "" THEN album.exc
                    ELSE IF artist_dir.exc # "" THEN artist_dir.exc
                    ELSE file_ext.exc,
     name       |-> name.val,
     artist     |-> artist.val,
     album      |-> album.val,
     track_num  |-> track_num,
     artist_dir |-> artist_dir.val,
     file_ext   |-> file_ext.val]

TrackWithArtist(song_el, artist) ==
    TrackAttrs(sanitize_path(get_str_attr(song_el, "Name", FALSE).val, "Name"),
               artist,
               get_str_attr(song_el, "Album", TRUE),
               get_track_num(song_el),
               get_artist_dir(song_el, artist.val),
               get_file_ext(song_el))

Track(song_el) == TrackWithArtist(song_el, get_str_attr(song_el, "Artist", TRUE))

\* Playlist.__init__ and Playlist.is_folder
Playlist(pl_el) ==
    [name      |-> get_str_attr(pl_el, "Name", FALSE).val,
     id        |-> get_str_attr(pl_el, "Playlist Persistent ID", FALSE).val,
     parent_id |-> get_str_attr(pl_el, "Parent Persistent ID", FALSE).val,
     is_folder |-> "Folder" \in pl_el.keys]

\* get_pl_folders(playlists): dict.update in list order, so that of two
\* folders with one ID the later one stays
RECURSIVE get_pl_folders(_)
\* line 52 as it would be if only the folders without a parent were put
\* into the table
FolderTableTopLevel(rest, p) ==
    IF ~p.is_folder \/ p.parent_id # <<>> THEN rest
    ELSE [k \in DOMAIN rest \cup {p.id} |->
             IF k = p.id THEN <<p.name, p.parent_id>> ELSE rest[k]]

\* line 52: pl_dict.update({p.id: (p.name, p.parent_id)})
FolderTableWith(rest, p) ==
    IF ~p.is_folder THEN rest
    ELSE [k \in DOMAIN rest \cup {p.id} |->
             IF k = p.id THEN <<p.name, p.parent_id>> ELSE rest[k]]

get_pl_folders(pls) ==
    IF Len(pls) = 0 THEN <<>>
    ELSE FolderTableWith(get_pl_folders(SubSeq(pls, 1, Len(pls) - 1)),
                         Playlist(pls[Len(pls)]))

\* lookup_song as it would be if an ID without a node gave some node of the
\* Track Table instead of raising
lookup_song_any_node(track_id, tracks_el) ==
    IF track_id \in DOMAIN tracks_el
    THEN Ok(tracks_el[track_id])
    ELSE Ok(tracks_el[CHOOSE k \in DOMAIN tracks_el : TRUE])

\* lookup_song(track_id_el, tracks_el): [0] of an empty xpath result raises
lookup_song(track_id, tracks_el) ==
    IF track_id \in DOMAIN tracks_el
    THEN Ok(tracks_el[track_id])
    ELSE Raise("IndexError")

\* ------------------------------------------------------------------------
\* The file system as os.path.exists, os.listdir, os.makedirs and open see it
\*
\* music_files holds the regular files below the music directory, each as
\* the sequence of its path components; a directory is a proper prefix of
\* a file.  The operating system splits a path at "/" and ignores empty
\* components; a path that ends in "/" names a directory only.
\* ------------------------------------------------------------------------

Components(p) == SelectSeq(Split(p, "/"), LAMBDA c : c # <<>>)

IsPrefix(a, b) == Len(a) <= Len(b) /\ SubSeq(b, 1, Len(a)) = a

IsMusicFile(rel) == rel \in music_files

IsMusicDir(rel) ==
    \/ rel = <<>>
    \/ \E f \in music_files : Len(f) > Len(rel) /\ IsPrefix(rel, f)

\* c names something in the music directory, whose components are root
InMusicDir(root, c) == IsPrefix(root, c)

BelowMusicDir(root, c) == SubSeq(c, Len(root) + 1, Len(c))

\* whether the components rel below the music directory name a directory,
\* or a regular file that the path does not follow with a separator
ExistsBelow(rel, as_dir) ==
    \/ IsMusicDir(rel)
    \/ IsMusicFile(rel) /\ ~as_dir

ExistsAt(root, c, as_dir) ==
    /\ music_root_exists
    /\ InMusicDir(root, c)
    /\ ExistsBelow(BelowMusicDir(root, c), as_dir)

\* os.path.exists(p) for a path of a music file
exists(p) ==
    /\ p # <<>>
    /\ ExistsAt(Components(cli_opts.music_dir), Components(p), p[Len(p)] = "/")

\* a set as a list, in some fixed order
RECURSIVE SetToSeq(_)
SetToSeq(S) ==
    IF S = {} THEN <<>>
    ELSE LET x == CHOOSE x \in S : TRUE
         IN  <<x>> \o SetToSeq(S \ {x})

Reverse(q) == [k \in 1..Len(q) |-> q[Len(q) + 1 - k]]

\* the names of the entries of the directory rel
Entries(rel) ==
    {f[Len(rel) + 1] : f \in {g \in music_files :
                                Len(g) > Len(rel) /\ IsPrefix(rel, g)}}

ListBelow(rel) ==
    IF IsMusicDir(rel)
    THEN Ok(IF rev_listing THEN Reverse(SetToSeq(Entries(rel)))
            ELSE SetToSeq(Entries(rel)))
    ELSE IF IsMusicFile(rel) THEN Raise("NotADirectoryError")
    ELSE Raise("FileNotFoundError")

ListAt(root, c) ==
    IF ~(music_root_exists /\ InMusicDir(root, c))
    THEN Raise("FileNotFoundError")
    ELSE ListBelow(BelowMusicDir(root, c))

\* os.listdir(p): the entries in an order the file system chooses
listdir(p) ==
    IF p = <<>> THEN Raise("FileNotFoundError")
    ELSE ListAt(Components(cli_opts.music_dir), Components(p))

\* ------------------------------------------------------------------------
\* lib/parsers.py: fuzzy_search
\* ------------------------------------------------------------------------

\* lines 151-158: what one dir_entry makes of best_dir_to_add
BestAfter(dir_entry, lc_de, lc_tp_entry, best, contains) ==
    IF Contains(lc_tp_entry, lc_de) /\ contains THEN dir_entry
    ELSE IF lc_de = lc_tp_entry THEN dir_entry
    ELSE best

\* the inner for loop over curr_dir: the last entry that matches stays
RECURSIVE best_dir_to_add(_, _, _, _)
best_dir_to_add(curr_dir, lc_tp_entry, best, contains) ==
    IF Len(curr_dir) = 0 THEN best
    ELSE best_dir_to_add(Tail(curr_dir), lc_tp_entry,
                         BestAfter(curr_dir[1], Lower(curr_dir[1]),
                                   lc_tp_entry, best, contains),
                         contains)

\* the for loop over tp_parts, from the entry tp_parts[1] on
RECURSIVE FuzzyDescend(_, _, _, _)
\* lines 160-165: the corrected entry is added, and the path must exist
FuzzyAdd(rest, next, dir_sep, contains) ==
    IF ~exists(next) THEN Ok(<<>>)
    ELSE FuzzyDescend(rest, next, dir_sep, contains)

\* lines 147-160: the entries of the directory reached so far are compared
FuzzyCorrect(tp_parts, fixed_path, curr_dir, dir_sep, contains) ==
    IF curr_dir.exc # "" THEN curr_dir
    ELSE FuzzyAdd(Tail(tp_parts),
                  fixed_path
                      \o best_dir_to_add(curr_dir.val, Lower(tp_parts[1]),
                                         tp_parts[1], contains)
                      \o <<dir_sep>>,
                  dir_sep, contains)

FuzzyDescend(tp_parts, fixed_path, dir_sep, contains) ==
    IF Len(tp_parts) = 0
    THEN Ok(SubSeq(fixed_path, 1, Len(fixed_path) - 1))
    ELSE IF exists(fixed_path \o tp_parts[1])
    THEN FuzzyDescend(Tail(tp_parts), fixed_path \o tp_parts[1] \o <<dir_sep>>,
                      dir_sep, contains)
    ELSE FuzzyCorrect(tp_parts, fixed_path, listdir(fixed_path), dir_sep, contains)

\* fuzzy_search(track_path, music_dir, dir_sep, contains)
fuzzy_search(track_path, music_dir, dir_sep, contains) ==
    FuzzyDescend(Split(RemoveAll(track_path, music_dir), dir_sep),
                 music_dir, dir_sep, contains)

\* ------------------------------------------------------------------------
\* The playlist directory: disk maps the components of a file's path to
\* what was written to it, dirs holds the directories
\* ------------------------------------------------------------------------

\* the existence check as it would be if it never saw the output file
output_exists_never(p) == FALSE

\* os.path.exists(p) for a path of an output file
output_exists(p) ==
    \/ Components(p) \in DOMAIN disk
    \/ Components(p) \in dirs

\* os.makedirs(p, exist_ok=True): the directory and every missing ancestor
makedirs(ds, p) ==
    ds \cup {SubSeq(Components(p), 1, n) : n \in 1..Len(Components(p))}

\* whether os.makedirs(p, exist_ok=True) succeeds: it creates nothing, or
\* the process may write into the playlist directory
CanMake(p) == access.pl_dir_writable \/ makedirs(dirs, p) = dirs

\* the writing of a file as it would be if a file of no lines at all were
\* not opened
WriteFileUnlessEmpty(d, p, content) ==
    IF content.kind = "set" /\ content.set = {} THEN d
    ELSE [k \in DOMAIN d \cup {Components(p)} |->
             IF k = Components(p) THEN content ELSE d[k]]

\* open(p, "w+") followed by writelines, or ElementTree.write(p)
WriteFile(d, p, content) ==
    [k \in DOMAIN d \cup {Components(p)} |->
        IF k = Components(p) THEN content ELSE d[k]]

\* the text of a file: a list of lines, or the lines of a set, which
\* writelines writes in no order known in advance
LinesFile(lines) ==
    [kind |-> "lines", title |-> <<>>, lines |-> lines, set |-> {}]

SetFile(lines) ==
    [kind |-> "set", title |-> <<>>, lines |-> <<>>, set |-> lines]

\* a playlist.xml: the text of LocalTitle and of each Path element, as a
\* parser reads them from the file
XmlFile(title, items) ==
    [kind |-> "xml", title |-> title, lines |-> items, set |-> {}]

\* a file that was in the playlist directory before the program ran
UserFile ==
    [kind |-> "user", title |-> <<>>, lines |-> <<>>, set |-> {}]

Line(p) == p \o <<"\n">>

\* ------------------------------------------------------------------------
\* __main__.py: parse_xml
\* ------------------------------------------------------------------------

dir_sep == IF cli_opts.use_dos_filepaths THEN "\\" ELSE "/"

xml_output == cli_opts.output_format # "m3u"

pl_dir == cli_opts.playlist_dir

pl_ignores ==
    { <<"L", "i", "b", "r", "a", "r", "y">>,
      <<"D", "o", "w", "n", "l", "o", "a", "d", "e", "d">>,
      <<"M", "u", "s", "i", "c">>,
      <<"R", "e", "c", "e", "n", "t", "l", "y", " ", "A", "d", "d", "e", "d">> }

\* the playlist entry the for loop is at, and its member track IDs
pl == Playlist(playlists[i])

pl_tracks == playlists[i].tracks

\* lines 185-195: pl_filepath from the folder path and the sanitized name
output_filepath(name, parents_path) ==
    IF xml_output
    THEN Join(<<pl_dir \o parents_path, sanitize_path(name, "Name").val,
                <<"p", "l", "a", "y", "l", "i", "s", "t", ".", "x", "m", "l">>>>,
              dir_sep)
    ELSE pl_dir \o parents_path \o <<dir_sep>> \o sanitize_path(name, "Name").val
             \o <<".", "m", "3", "u">>

\* lines 294-300: the path of the sibling .missing file
MissingSibling(parts) ==
    Join(SubSeq(parts, 1, Len(parts) - 1)
             \o << IF xml_output
                   THEN <<"p", "l", "a", "y", "l", "i", "s", "t", ".",
                          "m", "i", "s", "s", "i", "n", "g">>
                   ELSE parts[Len(parts)] \o <<".", "m", "i", "s", "s", "i", "n", "g">> >>,
         dir_sep)

missing_tr_file_path(filepath) == MissingSibling(Split(filepath, dir_sep))

\* write_xml_playlist: the directory made and the file written
AllButLast(parts) == Join(SubSeq(parts, 1, Len(parts) - 1), dir_sep)

xml_playlist_parent_dir(filepath) == AllButLast(Split(filepath, dir_sep))

\* etree.XML(text): the character data a parser reads from escaped text
RECURSIVE xml_unescape(_)
xml_unescape(s) ==
    IF Len(s) = 0 THEN <<>>
    ELSE IF StartsWith(s, <<"&", "a", "m", "p", ";">>)
    THEN <<"&">> \o xml_unescape(SubSeq(s, 6, Len(s)))
    ELSE IF StartsWith(s, <<"&", "l", "t", ";">>)
    THEN <<"<">> \o xml_unescape(SubSeq(s, 5, Len(s)))
    ELSE IF StartsWith(s, <<"&", "g", "t", ";">>)
    THEN <<">">> \o xml_unescape(SubSeq(s, 5, Len(s)))
    ELSE <<s[1]>> \o xml_unescape(Tail(s))

\* the tree write_xml_playlist builds and writes: LocalTitle is parsed from
\* the escaped name, the text of each Path element is set to the escaped
\* path; ElementTree.write escapes the text and a parser undoes just that
xml_playlist_file(pl_name, paths) ==
    XmlFile(xml_unescape(sanitize_xml(pl_name)),
            [k \in 1..Len(paths) |->
                sanitize_xml(SubSeq(paths[k], 1, Len(paths[k]) - 1))])

\* the miss policy as it would be if `error` fell through to the append
on_miss_error_appends(check_exists, path) ==
    IF check_exists = "warn" THEN [exc |-> "", append |-> <<>>]
    ELSE [exc |-> "", append |-> <<Line(path)>>]

\* lines 259-279: what the miss policy does with a member that was not
\* found: continue without it, raise, or fall through to the append
on_miss(check_exists, path) ==
    IF check_exists = "warn" THEN [exc |-> "", append |-> <<>>]
    ELSE IF check_exists = "error" THEN [exc |-> "FileNotFoundError", append |-> <<>>]
    ELSE [exc |-> "", append |-> <<Line(path)>>]

\* a loop body that an exception ends before line 237
MemberRaised(e) ==
    [exc |-> e, seen |-> {}, miss |-> {}, incomplete |-> FALSE, append |-> <<>>,
     check_path |-> <<>>, path |-> <<>>]

\* lines 221-279: the body of the for loop over the members of a playlist,
\* for the member with track ID tr_id.  seen goes to all_tracks_in_pls,
\* miss to both miss sets, append to track_paths; exc ends the run.

\* line 279 with the path as it was computed: the file exists
MemberFound(check_path, path) ==
    [exc |-> "", seen |-> {check_path}, miss |-> {}, incomplete |-> FALSE,
     append |-> <<Line(path)>>, check_path |-> check_path, path |-> path]

\* lines 250-274 as they would be without line 257, pl_incomplete = True
MemberMissedNotMarked(check_path, path, missed, policy) ==
    [exc |-> policy.exc, seen |-> {check_path}, miss |-> {missed},
     incomplete |-> FALSE, append |-> policy.append,
     check_path |-> check_path, path |-> path]

\* lines 237-274 as they would be if line 237 counted the expected path
\* only of a member that is found
MemberMissedNotSeen(check_path, path, missed, policy) ==
    [exc |-> policy.exc, seen |-> {}, miss |-> {missed},
     incomplete |-> TRUE, append |-> policy.append,
     check_path |-> check_path, path |-> path]

\* lines 250-274: the member is recorded as missed, then the policy acts
MemberMissed(check_path, path, missed, policy) ==
    [exc |-> policy.exc, seen |-> {check_path}, miss |-> {missed},
     incomplete |-> TRUE, append |-> policy.append,
     check_path |-> check_path, path |-> path]

\* lines 247-276 as they would be if a corrected path were appended and
\* line 279 then appended the path as it was computed, too
MemberCorrectedTwice(check_path, path, corrected_path) ==
    IF corrected_path.exc # ""
    THEN [MemberFound(check_path, path) EXCEPT !.exc = corrected_path.exc,
                                               !.append = <<>>]
    ELSE IF ~exists(corrected_path.val)
    THEN MemberMissed(check_path, path,
                      IF corrected_path.val = <<>> THEN Line(check_path)
                      ELSE Line(corrected_path.val),
                      on_miss(cli_opts.check_exists, path))
    ELSE [MemberFound(check_path, path) EXCEPT
              !.append = <<Line(corrected_path.val), Line(path)>>]

\* lines 247-276: what becomes of the value fuzzy_search returned
MemberCorrected(check_path, path, corrected_path) ==
    IF corrected_path.exc # ""
    THEN [MemberFound(check_path, path) EXCEPT !.exc = corrected_path.exc,
                                               !.append = <<>>]
    ELSE IF ~exists(corrected_path.val)
    THEN MemberMissed(check_path, path,
                      IF corrected_path.val = <<>> THEN Line(check_path)
                      ELSE Line(corrected_path.val),
                      on_miss(cli_opts.check_exists, path))
    ELSE [MemberFound(check_path, path) EXCEPT
              !.append = <<Line(corrected_path.val)>>]

\* lines 237-247
MemberChecked(check_path, path) ==
    IF exists(check_path) THEN MemberFound(check_path, path)
    ELSE MemberCorrected(check_path, path,
                         fuzzy_search(check_path, cli_opts.music_dir, dir_sep, TRUE))

\* lines 228-234: check_path and path from rel_path
MemberPaths(rel_path) ==
    MemberChecked(cli_opts.music_dir \o rel_path,
                  IF cli_opts.docker_dir # <<>>
                  THEN cli_opts.docker_dir \o rel_path
                  ELSE cli_opts.music_dir \o rel_path)

\* lines 222-227: rel_path from the track; str + None raises TypeError
MemberOfTrack(tr) ==
    IF tr.exc # "" THEN MemberRaised(tr.exc)
    ELSE IF tr.file_ext.none THEN MemberRaised("TypeError")
    ELSE MemberPaths(Join(<<tr.artist_dir, tr.album, tr.track_num \o tr.name>>, dir_sep)
                         \o tr.file_ext.ext)

member_body(tr_id) ==
    IF lookup_song(tr_id, all_tracks).exc # ""
    THEN MemberRaised(lookup_song(tr_id, all_tracks).exc)
    ELSE MemberOfTrack(Track(lookup_song(tr_id, all_tracks).val))

\* parent_folder as it would be if it put the name of the parent behind the
\* path so far and not before it
parent_folder_appends(pl_parent_id, folders_table, so_far) ==
    IF pl_parent_id = <<>>
    THEN [exc |-> "", done |-> TRUE, id |-> <<>>, path |-> so_far]
    ELSE IF pl_parent_id \notin DOMAIN folders_table
    THEN [exc |-> "KeyError", done |-> TRUE, id |-> pl_parent_id, path |-> so_far]
    ELSE [exc |-> "", done |-> FALSE, id |-> folders_table[pl_parent_id][2],
          path |-> so_far \o folders_table[pl_parent_id][1] \o <<dir_sep>>]

\* _parent_folder as it would be if an ID that is no key of the folder
\* table ended the walk like the empty ID
parent_folder_ignores_missing(pl_parent_id, folders_table, so_far) ==
    IF pl_parent_id = <<>> \/ pl_parent_id \notin DOMAIN folders_table
    THEN [exc |-> "", done |-> TRUE, id |-> <<>>, path |-> so_far]
    ELSE [exc |-> "", done |-> FALSE, id |-> folders_table[pl_parent_id][2],
          path |-> folders_table[pl_parent_id][1] \o <<dir_sep>> \o so_far]

\* one call of Playlist._parent_folder: it returns path_so_far (done), raises
\* KeyError for an ID that is no key of the folder table, or calls itself
\* with the parent's parent and the longer path
parent_folder(pl_parent_id, folders_table, so_far) ==
    IF pl_parent_id = <<>>
    THEN [exc |-> "", done |-> TRUE, id |-> <<>>, path |-> so_far]
    ELSE IF pl_parent_id \notin DOMAIN folders_table
    THEN [exc |-> "KeyError", done |-> TRUE, id |-> pl_parent_id, path |-> so_far]
    ELSE LET parent_info == folders_table[pl_parent_id]
         IN  [exc |-> "", done |-> FALSE, id |-> parent_info[2],
              path |-> parent_info[1] \o <<dir_sep>> \o so_far]

\* the depth of recursion at which the interpreter raises RecursionError
\* (sys.getrecursionlimit() is 1000; the model scales it down)
RecursionLimit == 6

\* gen_utils.print_progress_bar(rows_now, total_rows, start): the two
\* divisions, rows_now/total_rows and total_rows/rows_now
print_progress_bar(rows_now, total_rows) ==
    LET capped == IF rows_now < total_rows THEN rows_now ELSE total_rows
    IN  IF total_rows = 0 \/ capped = 0 THEN Raise("ZeroDivisionError") ELSE Ok(capped)

\* what the last step of the run was, for the statement of properties
NoEvent ==
    [op |-> "none", idx |-> 0, mem |-> 0, check_path |-> <<>>, path |-> <<>>,
     paths_before |-> <<>>, name |-> <<>>]

Event(op) == [NoEvent EXCEPT !.op = op, !.idx = i]

env == <<cli_opts, all_tracks, playlists, music_root_exists, music_files, rev_listing,
        access>>

\* lines 128-165: load the document, build the folder table, make pl_dir
Begin ==
    /\ pc = "start"
    /\ access.xml_readable
    /\ CanMake(pl_dir)
    /\ pl_folders' = get_pl_folders(playlists)
    /\ total_playlists' = Len(playlists) - Cardinality(pl_ignores)
    /\ dirs' = makedirs(dirs, pl_dir)
    /\ all_tracks_in_pls' = {}
    /\ all_tracks_not_found' = {}
    /\ incomplete_playlists' = <<>>
    /\ i' = 1
    /\ pc' = "loop"
    /\ ev' = [NoEvent EXCEPT !.op = "begin"]
    /\ UNCHANGED <<env, disk, exc, run, j, pl_incomplete, track_paths,
                   pl_tracks_not_found, pl_filepath, walk_id, path_so_far, depth,
                   pl_state, written, disk_at_start>>

\* lines 173-176: a playlist whose name is in pl_ignores
SkipIgnored ==
    /\ pc = "loop"
    /\ i <= Len(playlists)
    /\ pl.name \in pl_ignores
    /\ i' = i + 1
    /\ pl_state' = [pl_state EXCEPT ![i] = "SKIP"]
    /\ ev' = Event("ignored")
    /\ UNCHANGED <<env, disk, dirs, pc, exc, run, j, pl_folders, total_playlists,
                   all_tracks_in_pls, all_tracks_not_found, incomplete_playlists,
                   pl_incomplete, track_paths, pl_tracks_not_found, pl_filepath,
                   walk_id, path_so_far, depth, written, disk_at_start>>

\* lines 178-181: a playlist folder
SkipFolder ==
    /\ pc = "loop"
    /\ i <= Len(playlists)
    /\ pl.name \notin pl_ignores
    /\ pl.is_folder
    /\ total_playlists' = total_playlists - 1
    /\ i' = i + 1
    /\ pl_state' = [pl_state EXCEPT ![i] = "SKIP"]
    /\ ev' = Event("folder")
    /\ UNCHANGED <<env, disk, dirs, pc, exc, run, j, pl_folders,
                   all_tracks_in_pls, all_tracks_not_found, incomplete_playlists,
                   pl_incomplete, track_paths, pl_tracks_not_found, pl_filepath,
                   walk_id, path_so_far, depth, written, disk_at_start>>

\* lines 183-185 and 393-394: a real playlist; make_parent_folder_path makes
\* the first call of _parent_folder
StartPlaylist ==
    /\ pc = "loop"
    /\ i <= Len(playlists)
    /\ pl.name \notin pl_ignores
    /\ ~pl.is_folder
    /\ pl_incomplete' = FALSE
    /\ walk_id' = pl.parent_id
    /\ path_so_far' = <<>>
    /\ depth' = 1
    /\ pc' = "walk"
    /\ pl_state' = [pl_state EXCEPT ![i] = "PROCESSING"]
    /\ ev' = Event("playlist")
    /\ UNCHANGED <<env, disk, dirs, exc, run, i, j, pl_folders, total_playlists,
                   all_tracks_in_pls, all_tracks_not_found, incomplete_playlists,
                   track_paths, pl_tracks_not_found, pl_filepath, written,
                   disk_at_start>>

\* lines 416-419: _parent_folder calls itself for the parent's parent
ParentFolderRecurse ==
    /\ pc = "walk"
    /\ LET call == parent_folder(walk_id, pl_folders, path_so_far)
       IN  /\ ~call.done
           /\ depth < RecursionLimit
           /\ walk_id' = call.id
           /\ path_so_far' = call.path
    /\ depth' = depth + 1
    /\ ev' = Event("recurse")
    /\ UNCHANGED <<env, disk, dirs, pc, exc, run, i, j, pl_folders, total_playlists,
                   all_tracks_in_pls, all_tracks_not_found, incomplete_playlists,
                   pl_incomplete, track_paths, pl_tracks_not_found, pl_filepath,
                   pl_state, written, disk_at_start>>

\* line 419 when the interpreter's stack is exhausted: RecursionError
ParentFolderOverflow ==
    /\ pc = "walk"
    /\ ~parent_folder(walk_id, pl_folders, path_so_far).done
    /\ depth >= RecursionLimit
    /\ pc' = "aborted"
    /\ exc' = "RecursionError"
    /\ ev' = Event("overflow")
    /\ UNCHANGED <<env, disk, dirs, run, i, j, pl_folders, total_playlists,
                   all_tracks_in_pls, all_tracks_not_found, incomplete_playlists,
                   pl_incomplete, track_paths, pl_tracks_not_found, pl_filepath,
                   walk_id, path_so_far, depth, pl_state, written, disk_at_start>>

\* line 416 for a parent ID that is no key of the folder table: KeyError
ParentFolderMissing ==
    /\ pc = "walk"
    /\ parent_folder(walk_id, pl_folders, path_so_far).exc # ""
    /\ pc' = "aborted"
    /\ exc' = parent_folder(walk_id, pl_folders, path_so_far).exc
    /\ ev' = Event("dangling")
    /\ UNCHANGED <<env, disk, dirs, run, i, j, pl_folders, total_playlists,
                   all_tracks_in_pls, all_tracks_not_found, incomplete_playlists,
                   pl_incomplete, track_paths, pl_tracks_not_found, pl_filepath,
                   walk_id, path_so_far, depth, pl_state, written, disk_at_start>>

\* the walk returned: its result, and the output path of lines 185-195
WalkReturned ==
    /\ pc = "walk"
    /\ parent_folder(walk_id, pl_folders, path_so_far).done
    /\ parent_folder(walk_id, pl_folders, path_so_far).exc = ""

parents_path == parent_folder(walk_id, pl_folders, path_so_far).path

\* lines 396 and 186-214: the output file exists, the playlist is skipped
SkipExisting ==
    /\ WalkReturned
    /\ output_exists(output_filepath(pl.name, parents_path))
    /\ CanMake(pl_dir \o parents_path)
    /\ dirs' = makedirs(dirs, pl_dir \o parents_path)
    /\ track_paths' = <<>>
    /\ pl_tracks_not_found' = {}
    /\ pl_filepath' = output_filepath(pl.name, parents_path)
    /\ i' = i + 1
    /\ pc' = "loop"
    /\ pl_state' = [pl_state EXCEPT ![i] = "SKIPPED_EXISTING"]
    /\ ev' = Event("exists")
    /\ UNCHANGED <<env, disk, exc, run, j, pl_folders, total_playlists,
                   all_tracks_in_pls, all_tracks_not_found, incomplete_playlists,
                   pl_incomplete, walk_id, path_so_far, depth, written,
                   disk_at_start>>

\* lines 396 and 186-219: the output file does not exist, the loop over
\* the members starts
BeginMembers ==
    /\ WalkReturned
    /\ ~output_exists(output_filepath(pl.name, parents_path))
    /\ CanMake(pl_dir \o parents_path)
    /\ dirs' = makedirs(dirs, pl_dir \o parents_path)
    /\ track_paths' = <<>>
    /\ pl_tracks_not_found' = {}
    /\ pl_filepath' = output_filepath(pl.name, parents_path)
    /\ j' = 1
    /\ pc' = "member"
    /\ ev' = Event("members")
    /\ UNCHANGED <<env, disk, exc, run, i, pl_folders, total_playlists,
                   all_tracks_in_pls, all_tracks_not_found, incomplete_playlists,
                   pl_incomplete, walk_id, path_so_far, depth, pl_state, written,
                   disk_at_start>>

\* lines 219-279: one pass of the loop over the members
ProcessMember ==
    /\ pc = "member"
    /\ j <= Len(pl_tracks)
    /\ LET m == member_body(pl_tracks[j])
       IN  /\ all_tracks_in_pls' = all_tracks_in_pls \cup m.seen
           /\ pl_tracks_not_found' = pl_tracks_not_found \cup m.miss
           /\ all_tracks_not_found' = all_tracks_not_found \cup m.miss
           /\ pl_incomplete' = (pl_incomplete \/ m.incomplete)
           /\ track_paths' = track_paths \o m.append
           /\ pc' = IF m.exc # "" THEN "aborted" ELSE "member"
           /\ exc' = m.exc
           /\ j' = IF m.exc # "" THEN j ELSE j + 1
           /\ ev' = [Event("member") EXCEPT !.mem = j, !.check_path = m.check_path,
                                            !.path = m.path,
                                            !.paths_before = track_paths]
    /\ UNCHANGED <<env, disk, dirs, run, i, pl_folders, total_playlists,
                   incomplete_playlists, pl_filepath, walk_id, path_so_far, depth,
                   pl_state, written, disk_at_start>>

\* lines 281-308: after the last member, the playlist's two files are
\* written and the progress bar is printed
WritePlaylist ==
    /\ pc = "member"
    /\ j > Len(pl_tracks)
    /\ access.pl_dir_writable
    /\ incomplete_playlists' =
           IF pl_incomplete
           THEN Append(incomplete_playlists, Line(pl.name))
           ELSE incomplete_playlists
    /\ disk' = WriteFile(
                   WriteFile(disk, pl_filepath,
                             IF xml_output
                             THEN xml_playlist_file(pl.name, track_paths)
                             ELSE LinesFile(track_paths)),
                   missing_tr_file_path(pl_filepath),
                   SetFile(pl_tracks_not_found))
    /\ dirs' = IF xml_output
               THEN makedirs(dirs, xml_playlist_parent_dir(pl_filepath))
               ELSE dirs
    /\ written' = written \cup {Components(pl_filepath),
                                Components(missing_tr_file_path(pl_filepath))}
    /\ pl_state' = [pl_state EXCEPT ![i] = "WRITTEN"]
    /\ LET bar == print_progress_bar(i, total_playlists)
       IN  /\ pc' = IF bar.exc # "" THEN "aborted" ELSE "loop"
           /\ exc' = bar.exc
           /\ i' = IF bar.exc # "" THEN i ELSE i + 1
    /\ ev' = [Event("write") EXCEPT !.name = pl.name]
    /\ UNCHANGED <<env, run, j, pl_folders, total_playlists, all_tracks_in_pls,
                   all_tracks_not_found, pl_incomplete, track_paths,
                   pl_tracks_not_found, pl_filepath, walk_id, path_so_far, depth,
                   disk_at_start>>

incomplete_playlists_path ==
    pl_dir \o <<"0", "0", "i", "n", "c", "o", "m", "p", "l", "e", "t", "e", "_",
                "p", "l", "a", "y", "l", "i", "s", "t", "s", ".", "t", "x", "t">>

tracks_not_found_path ==
    pl_dir \o <<"0", "0", "t", "r", "a", "c", "k", "s", "_", "n", "o", "t", "_",
                "f", "o", "u", "n", "d", ".", "m", "3", "u">>

\* lines 310-326: after the last playlist, the two global files are written
Finish ==
    /\ pc = "loop"
    /\ i > Len(playlists)
    /\ access.pl_dir_writable
    /\ disk' = WriteFile(
                   WriteFile(disk, incomplete_playlists_path,
                             LinesFile(incomplete_playlists)),
                   tracks_not_found_path,
                   SetFile(all_tracks_not_found))
    /\ written' = written \cup {Components(incomplete_playlists_path),
                                Components(tracks_not_found_path)}
    /\ pc' = "done"
    /\ ev' = Event("finish")
    /\ UNCHANGED <<env, dirs, exc, run, i, j, pl_folders, total_playlists,
                   all_tracks_in_pls, all_tracks_not_found, incomplete_playlists,
                   pl_incomplete, track_paths, pl_tracks_not_found, pl_filepath,
                   walk_id, path_so_far, depth, pl_state>>
    /\ UNCHANGED disk_at_start

\* how many times the program is started on the same document and disk
MaxRuns == 2

\* the program is started again: a new process, the files stay
Rerun ==
    /\ pc \in {"done", "aborted"}
    /\ run < MaxRuns
    /\ run' = run + 1
    /\ pc' = "start"
    /\ exc' = ""
    /\ i' = 0
    /\ j' = 0
    /\ pl_folders' = <<>>
    /\ total_playlists' = 0
    /\ all_tracks_in_pls' = {}
    /\ all_tracks_not_found' = {}
    /\ incomplete_playlists' = <<>>
    /\ pl_incomplete' = FALSE
    /\ track_paths' = <<>>
    /\ pl_tracks_not_found' = {}
    /\ pl_filepath' = <<>>
    /\ walk_id' = <<>>
    /\ path_so_far' = <<>>
    /\ depth' = 0
    /\ pl_state' = [k \in 1..Len(playlists) |-> "PENDING"]
    /\ written' = {}
    /\ disk_at_start' = disk
    /\ ev' = NoEvent
    /\ UNCHANGED <<env, disk, dirs>>

Next ==
    \/ Begin
    \/ SkipIgnored
    \/ SkipFolder
    \/ StartPlaylist
    \/ ParentFolderRecurse
    \/ ParentFolderOverflow
    \/ ParentFolderMissing
    \/ SkipExisting
    \/ BeginMembers
    \/ ProcessMember
    \/ WritePlaylist
    \/ Finish
    \/ Rerun

\* ------------------------------------------------------------------------
\* The documents, disks and options the runs start from
\* ------------------------------------------------------------------------

MaxMembers == 2

MaxPlaylists == 4

MpegAudio == <<"M", "P", "E", "G", " ", "a", "u", "d", "i", "o", " ", "f", "i", "l", "e">>

WavAudio == <<"W", "A", "V", " ", "a", "u", "d", "i", "o", " ", "f", "i", "l", "e">>

\* a track <dict> with Name, Artist, Album and Kind, and a Track Number
\* when num is not empty
TrackEl(name, artist, album, kind, num) ==
    [str  |-> [k \in {"Name", "Artist", "Album", "Kind"} |->
                 CASE k = "Name" -> name
                   [] k = "Artist" -> artist
                   [] k = "Album" -> album
                   [] OTHER -> kind],
     int  |-> IF num = <<>> THEN <<>> ELSE [k \in {"Track Number"} |-> num],
     keys |-> {}]

\* the same without the Kind key
TrackElNoKind(name, artist, album) ==
    [str  |-> [k \in {"Name", "Artist", "Album"} |->
                 CASE k = "Name" -> name
                   [] k = "Artist" -> artist
                   [] OTHER -> album],
     int  |-> <<>>,
     keys |-> {}]

\* The Track Table.  Track 1 is on disk at its expected path, track 2 is on
\* disk below a directory that differs in case, track 3 is not on disk,
\* track 4 has a kind that FILE_EXT_MAP has no key for, track 5 has no
\* Kind, and the artist directory of track 6 is a regular file on disk.
TrackTable ==
    [id \in {"1", "2", "3", "4", "5", "6"} |->
        CASE id = "1" -> TrackEl(<<"s", "&">>, <<"a">>, <<"b">>, MpegAudio, <<"1">>)
          [] id = "2" -> TrackEl(<<"t">>, <<"c">>, <<"b">>, MpegAudio, <<>>)
          [] id = "3" -> TrackEl(<<"u">>, <<"a">>, <<"b">>, WavAudio, <<>>)
          [] id = "4" -> TrackEl(<<"v">>, <<"a">>, <<"b">>, <<"O", "g", "g">>, <<>>)
          [] id = "5" -> TrackElNoKind(<<"w">>, <<"a">>, <<"b">>)
          [] OTHER    -> TrackEl(<<"y">>, <<"x">>, <<"b">>, MpegAudio, <<>>)]

\* the IDs a playlist may refer to; "9" is no key of the Track Table
TrackIds == {"1", "2", "3", "4", "5", "6", "9"}

MusicTree ==
    { << <<"a">>, <<"b">>, <<"0", "1", " ", "s", "&", ".", "m", "p", "3">> >>,
      << <<"C">>, <<"b">>, <<"t", ".", "m", "p", "3">> >>,
      << <<"C", "c">>, <<"b">>, <<"t", ".", "m", "p", "3">> >>,
      << <<"x">> >> }

\* the same tree with a file at the expected path of track 3 but for the
\* case of a letter of its name
CaseTree == MusicTree \cup { << <<"a">>, <<"b">>, <<"U", ".", "w", "a", "v">> >> }

\* a playlist <dict>: a real playlist, or a folder with a persistent ID
PlaylistEl(name, id, parent, folder, tracks) ==
    [str    |-> [k \in {"Name"} \cup (IF id = <<>> THEN {} ELSE {"Playlist Persistent ID"})
                          \cup (IF parent = <<>> THEN {} ELSE {"Parent Persistent ID"}) |->
                   CASE k = "Name" -> name
                     [] k = "Playlist Persistent ID" -> id
                     [] OTHER -> parent],
     int    |-> <<>>,
     keys   |-> IF folder THEN {"Folder"} ELSE {},
     tracks |-> tracks]

\* the lists of at most n elements of S
SeqsUpTo(S, n) == UNION {[1..k -> S] : k \in 0..n}

FolderIds == {<<"A">>, <<"B">>}

\* a parent ID: none, a folder's ID, or "Z", which no folder has
ParentIds == {<<>>, <<"A">>, <<"B">>, <<"Z">>}

FolderName(id) == IF id = <<"A">> THEN <<"f">> ELSE <<"g">>

FolderEls ==
    {PlaylistEl(FolderName(id), id, parent, TRUE, <<>>) :
        id \in FolderIds, parent \in ParentIds}

\* the members that come before the last one: a track that is found, one
\* that the fuzzy search finds and one that is not found
FirstIds == {"1", "2", "3"}

\* one playlist "p" with every such list of members, ended by any track ID
MemberLists ==
    {<<>>} \cup {first \o <<t>> :
                    first \in SeqsUpTo(FirstIds, MaxMembers - 1), t \in TrackIds}

MemberDocs ==
    {<<PlaylistEl(<<"p">>, <<"P", "1">>, <<>>, FALSE, t)>> : t \in MemberLists}

\* lists of two and more entries: a playlist without misses, one with a
\* miss and an ignored name
EntryEls ==
    { PlaylistEl(<<"p">>, <<"P", "1">>, <<>>, FALSE, <<"1">>),
      PlaylistEl(<<"q">>, <<"P", "2">>, <<>>, FALSE, <<"1", "3">>),
      PlaylistEl(<<"L", "i", "b", "r", "a", "r", "y">>, <<"P", "0">>, <<>>, FALSE, <<"1">>) }

PlaylistDocs == SeqsUpTo(EntryEls, MaxPlaylists) \ SeqsUpTo(EntryEls, 1)

\* two playlists of the same name, each with a persistent ID and members
\* of its own
SameNameDoc ==
    << PlaylistEl(<<"p">>, <<"P", "1">>, <<>>, FALSE, <<"1">>),
       PlaylistEl(<<"p">>, <<"P", "3">>, <<>>, FALSE, <<"1", "3">>) >>

\* folder tables of every shape (chains, dangling parents, cycles), each
\* folder with a persistent ID of its own, before one playlist "p" with
\* each parent ID, one member on disk and one not
FolderLists ==
    {fs \in SeqsUpTo(FolderEls, Cardinality(FolderIds)) :
        \A a, b \in 1..Len(fs) :
            a # b => fs[a].str["Playlist Persistent ID"] # fs[b].str["Playlist Persistent ID"]}

FolderDocs ==
    {fs \o <<PlaylistEl(<<"p">>, <<"P", "1">>, parent, FALSE, <<"1", "3">>)>> :
        fs \in FolderLists, parent \in ParentIds}

Policies == {"warn", "error", "none"}

Formats == {"m3u", "xml"}

DockerDirs == {<<>>, <<"d", "/">>}

\* every access is permitted
FullAccess == [xml_readable |-> TRUE, pl_dir_writable |-> TRUE]

\* the state at the position at of main with the given option dict, Track
\* Table, music tree, document and disk; pre says whether the output of
\* playlist "p" is already there, made whether the playlist directory is
InitAll(opts, tracks, tree, doc, root, rev, pre, acc, made, at) ==
    /\ cli_opts = opts
    /\ access = acc
    /\ all_tracks = tracks
    /\ playlists = doc
    /\ music_root_exists = root
    /\ music_files = IF root THEN tree ELSE {}
    /\ rev_listing = rev
    /\ disk = IF pre
              THEN [k \in {Components(output_filepath(<<"p">>, <<>>))} |-> UserFile]
              ELSE <<>>
    /\ dirs = IF pre
              THEN makedirs({}, xml_playlist_parent_dir(output_filepath(<<"p">>, <<>>)))
              ELSE IF made THEN makedirs({}, opts.playlist_dir)
              ELSE {}
    /\ pc = at
    /\ exc = ""
    /\ run = 1
    /\ i = 0
    /\ j = 0
    /\ pl_folders = <<>>
    /\ total_playlists = 0
    /\ all_tracks_in_pls = {}
    /\ all_tracks_not_found = {}
    /\ incomplete_playlists = <<>>
    /\ pl_incomplete = FALSE
    /\ track_paths = <<>>
    /\ pl_tracks_not_found = {}
    /\ pl_filepath = <<>>
    /\ walk_id = <<>>
    /\ path_so_far = <<>>
    /\ depth = 0
    /\ pl_state = [k \in 1..Len(doc) |-> "PENDING"]
    /\ written = {}
    /\ disk_at_start = disk
    /\ ev = NoEvent

\* the state before parse_xml is called by main, with every access
\* permitted and the directory options as ensure_slash leaves them
InitState(tracks, tree, doc, policy, format, docker, root, rev, pre) ==
    InitAll([xml_file          |-> <<"L", ".", "x", "m", "l">>,
             music_dir         |-> <<"m", "/">>,
             playlist_dir      |-> <<"P", "/">>,
             check_exists      |-> policy,
             docker_dir        |-> docker,
             output_format     |-> format,
             use_dos_filepaths |-> FALSE],
            tracks, tree, doc, root, rev, pre, FullAccess, FALSE, "start")

\* the same with the Track Table and the music tree of above
InitWith(doc, policy, format, docker, root, rev, pre) ==
    InitState(TrackTable, MusicTree, doc, policy, format, docker, root, rev, pre)

Init ==
    \/ \E doc \in MemberDocs, policy \in Policies, format \in Formats,
          docker \in DockerDirs, rev \in BOOLEAN :
           InitWith(doc, policy, format, docker, TRUE, rev, FALSE)
    \/ \E doc \in PlaylistDocs, policy \in Policies, format \in Formats :
           InitWith(doc, policy, format, <<>>, TRUE, FALSE, FALSE)
    \/ \E doc \in PlaylistDocs, format \in Formats :
           InitWith(doc, "warn", format, <<>>, TRUE, FALSE, TRUE)
    \/ \E doc \in FolderDocs, format \in Formats :
           InitWith(doc, "warn", format, <<>>, TRUE, FALSE, FALSE)
    \/ \E doc \in MemberDocs, policy \in Policies :
           /\ Len(doc[1].tracks) = 1
           /\ InitWith(doc, policy, "m3u", <<>>, FALSE, FALSE, FALSE)
    \/ \E doc \in MemberDocs, policy \in Policies, format \in Formats :
           /\ doc[1].tracks = <<"3">>
           /\ InitState(TrackTable, CaseTree, doc, policy, format, <<>>,
                        TRUE, FALSE, FALSE)
    \/ \E format \in Formats :
           InitWith(SameNameDoc, "warn", format, <<>>, TRUE, FALSE, FALSE)

Spec == Init /\ [][Next]_vars

\* ------------------------------------------------------------------------
\* Runs over the fields of one track: a document with one playlist "p"
\* whose only member is track "1", an empty music directory and the policy
\* `none`, for every track element of three families of fields
\* ------------------------------------------------------------------------

VariousArtists ==
    <<"V", "a", "r", "i", "o", "u", "s", " ", "A", "r", "t", "i", "s", "t", "s">>

ArtistAttrs == {"Sort Album Artist", "Album Artist", "Sort Artist", "Artist"}

\* the texts an attribute of the artist family may have; " " is a <string>
\* element that holds a blank
ArtistTexts ==
    [attr \in ArtistAttrs |->
        CASE attr = "Sort Album Artist" -> {<<"v">>, VariousArtists, <<" ">>}
          [] attr = "Album Artist"      -> {<<"w">>, VariousArtists}
          [] attr = "Sort Artist"       -> {<<"z">>}
          [] OTHER                      -> {<<"a">>, <<" ">>}]

NumberAttrs == {"Disc Count", "Disc Number", "Track Number"}

\* the values of the <integer> elements of the number family
NumberTexts ==
    [attr \in NumberAttrs |->
        CASE attr = "Disc Count"  -> {<<"1">>, <<"2">>}
          [] attr = "Disc Number" -> {<<"1">>}
          [] OTHER                -> {<<"3">>, <<"4">>, <<"1", "2">>}]

\* names and albums with characters that sanitize_path replaces, with dots
\* at either end, and a blank album
NameTexts == {<<"n">>, <<".", "n", ".">>, <<"n", "*", "?">>}

AlbumTexts ==
    {<<" ">>, <<".">>, <<".", "b", ".">>, <<"b", ".", "c">>, <<"a", "/", "b">>,
     <<"b", ":", ".">>}

\* the assignments of a text of texts[k] to each key k of some subset of attrs
FieldMaps(attrs, texts) ==
    UNION {{f \in [D -> UNION {texts[k] : k \in attrs}] : \A k \in D : f[k] \in texts[k]} :
             D \in SUBSET attrs}

\* a track <dict> with the given name and album, of kind MPEG audio file
FieldEl(name, album, strs, ints, keys) ==
    [str  |-> strs @@ [k \in {"Name", "Album", "Kind"} |->
                          CASE k = "Name" -> name
                            [] k = "Album" -> album
                            [] OTHER -> MpegAudio],
     int  |-> ints,
     keys |-> keys]

ArtistEls ==
    {FieldEl(<<"n">>, <<"b">>, strs, <<>>, keys) :
        strs \in FieldMaps(ArtistAttrs, ArtistTexts), keys \in {{}, {"Compilation"}}}

NumberEls ==
    {FieldEl(<<"n">>, <<"b">>, [k \in {"Artist"} |-> <<"a">>], ints, {}) :
        ints \in FieldMaps(NumberAttrs, NumberTexts)}

TextEls ==
    {FieldEl(name, album, [k \in {"Artist"} |-> <<"a">>], <<>>, {}) :
        name \in NameTexts, album \in AlbumTexts}

FieldDoc == <<PlaylistEl(<<"p">>, <<"P", "1">>, <<>>, FALSE, <<"1">>)>>

InitFields ==
    \E el \in ArtistEls \cup NumberEls \cup TextEls, format \in Formats :
        InitState([id \in {"1"} |-> el], {}, FieldDoc, "none", format, <<>>,
                  TRUE, FALSE, FALSE)

\* the steps of a run over a document of one real playlist
NextFields ==
    \/ Begin
    \/ StartPlaylist
    \/ BeginMembers
    \/ ProcessMember
    \/ WritePlaylist
    \/ Finish

SpecFields == InitFields /\ [][NextFields]_vars

\* ------------------------------------------------------------------------
\* __main__.py: main, from the option dict of parse_cli_args to the exit of
\* the process.  pc is "main" before ensure_slash, "start" before parse_xml,
\* and at the end "complete" (the message "Conversion complete!" was
\* printed and main returned), "returned" (main returned after the
\* extension map) or "exited" (sys.exit, or an exception that nothing
\* caught)
\* ------------------------------------------------------------------------

\* lib/gen_utils.py, lines 161-165: the end of parse_cli_args
parse_cli_args(args) ==
    IF args.music_dir = <<>> THEN [args EXCEPT !.check_exists = "none"] ELSE args

\* lib/gen_utils.py, lines 193-195: the body of the loop of ensure_slash
\* for one option; opts[arg][-1] of an empty string raises
slash_arg(r, arg, fp_slash) ==
    IF r.exc # "" THEN r
    ELSE IF r.val[arg] = <<>> THEN Raise("IndexError")
    ELSE IF r.val[arg][Len(r.val[arg])] # fp_slash
         THEN Ok([r.val EXCEPT ![arg] = @ \o <<fp_slash>>])
    ELSE r

\* lib/gen_utils.py, lines 180-197
ensure_slash(opts) ==
    LET fp_slash == IF opts.use_dos_filepaths THEN "\\" ELSE "/"
    IN  slash_arg(slash_arg(slash_arg(Ok(opts), "playlist_dir", fp_slash),
                            "music_dir", fp_slash),
                  "docker_dir", fp_slash)

\* what is left alone by the steps of main
run_state ==
    <<all_tracks, playlists, music_root_exists, music_files, rev_listing, access,
      disk, dirs, run, i, j, pl_folders, total_playlists, all_tracks_in_pls,
      all_tracks_not_found, incomplete_playlists, pl_incomplete, track_paths,
      pl_tracks_not_found, pl_filepath, walk_id, path_so_far, depth, pl_state,
      written, disk_at_start>>

\* lines 348-353: the options are normalised; the extension map is shown
\* and main returns, or parse_xml is about to be called
MainStart ==
    /\ pc = "main"
    /\ LET r == ensure_slash(cli_opts)
       IN  /\ exc' = r.exc
           /\ cli_opts' = IF r.exc # "" THEN cli_opts ELSE r.val
           /\ pc' = IF r.exc # "" THEN "exited"
                    ELSE IF r.val.show_ext_map THEN "returned"
                    ELSE "start"
    /\ ev' = [NoEvent EXCEPT !.op = "slash"]
    /\ UNCHANGED run_state

\* lines 139-145 of parse_xml: etree.parse cannot read the document, the
\* OSError is printed and a new OSError raised from it
BeginUnreadable ==
    /\ pc = "start"
    /\ ~access.xml_readable
    /\ pc' = "aborted"
    /\ exc' = "OSError"
    /\ ev' = [NoEvent EXCEPT !.op = "unreadable"]
    /\ UNCHANGED <<cli_opts, run_state>>

\* line 160 of parse_xml: os.makedirs may not create the playlist directory
DeniedMakedirs ==
    /\ pc = "start"
    /\ access.xml_readable
    /\ ~CanMake(pl_dir)
    /\ pl_folders' = get_pl_folders(playlists)
    /\ total_playlists' = Len(playlists) - Cardinality(pl_ignores)
    /\ pc' = "aborted"
    /\ exc' = "PermissionError"
    /\ ev' = [NoEvent EXCEPT !.op = "denied"]
    /\ UNCHANGED <<env, disk, dirs, run, i, j, all_tracks_in_pls,
                   all_tracks_not_found, incomplete_playlists, pl_incomplete,
                   track_paths, pl_tracks_not_found, pl_filepath, walk_id,
                   path_so_far, depth, pl_state, written, disk_at_start>>

\* lines 281-290 of parse_xml: the output file of the playlist may not be
\* opened for writing
DeniedWrite ==
    /\ pc = "member"
    /\ j > Len(pl_tracks)
    /\ ~access.pl_dir_writable
    /\ incomplete_playlists' =
           IF pl_incomplete
           THEN Append(incomplete_playlists, Line(pl.name))
           ELSE incomplete_playlists
    /\ pc' = "aborted"
    /\ exc' = "PermissionError"
    /\ ev' = Event("denied")
    /\ UNCHANGED <<env, disk, dirs, run, i, j, pl_folders, total_playlists,
                   all_tracks_in_pls, all_tracks_not_found, pl_incomplete,
                   track_paths, pl_tracks_not_found, pl_filepath, walk_id,
                   path_so_far, depth, pl_state, written, disk_at_start>>

\* lines 312-313 of parse_xml: 00incomplete_playlists.txt may not be opened
DeniedSummary ==
    /\ pc = "loop"
    /\ i > Len(playlists)
    /\ ~access.pl_dir_writable
    /\ pc' = "aborted"
    /\ exc' = "PermissionError"
    /\ ev' = Event("denied")
    /\ UNCHANGED <<cli_opts, run_state>>

\* os.stat(p) of a directory option succeeds
stat_ok(p) == exists(p) \/ output_exists(p)

\* lines 358-403: where main goes when parse_xml returned (e is empty) or
\* raised e.  In debug mode and in the handler of PermissionError, whose
\* two os.stat calls may raise, an exception ends the process; the
\* handlers of FileNotFoundError, OSError and Exception call sys.exit,
\* the one of PermissionError does not
main_handler(e, debug_mode) ==
    IF e = "" THEN "complete"
    ELSE IF debug_mode THEN "exited"
    ELSE IF e = "FileNotFoundError" THEN "exited"
    ELSE IF e = "PermissionError"
         THEN IF stat_ok(cli_opts.music_dir) /\ stat_ok(cli_opts.playlist_dir)
              THEN "complete"
              ELSE "exited"
    ELSE "exited"

\* lines 355-405: parse_xml has returned or raised
MainEnd ==
    /\ pc \in {"done", "aborted"}
    /\ pc' = main_handler(exc, cli_opts.debug_mode)
    /\ ev' = Event("main")
    /\ UNCHANGED <<cli_opts, exc, run_state>>

\* the option dicts of parse_cli_args: each directory option omitted,
\* without and with the separator at its end
RawDirs(d) == {<<>>, <<d>>, <<d, "/">>}

ArgBundles ==
    [xml_file          : {<<"L", ".", "x", "m", "l">>},
     music_dir         : RawDirs("m"),
     playlist_dir      : RawDirs("P"),
     check_exists      : Policies,
     docker_dir        : RawDirs("d"),
     output_format     : {"xml"},
     use_dos_filepaths : BOOLEAN,
     show_ext_map      : BOOLEAN,
     debug_mode        : BOOLEAN]

\* option dicts that ensure_slash leaves as they are
SlashedBundles ==
    [xml_file          : {<<"L", ".", "x", "m", "l">>},
     music_dir         : {<<"m", "/">>},
     playlist_dir      : {<<"P", "/">>},
     check_exists      : Policies,
     docker_dir        : {<<"d", "/">>},
     output_format     : Formats,
     use_dos_filepaths : {FALSE},
     show_ext_map      : {FALSE},
     debug_mode        : BOOLEAN]

\* what the operating system may refuse: nothing, the reading of the
\* document, the writing into the playlist directory
AccessKinds ==
    {FullAccess,
     [xml_readable |-> FALSE, pl_dir_writable |-> TRUE],
     [xml_readable |-> TRUE, pl_dir_writable |-> FALSE]}

\* one playlist "p" of one member, or one playlist of an ignored name
MainDocs ==
    {doc \in MemberDocs : Len(doc[1].tracks) = 1}
        \cup {<<PlaylistEl(<<"L", "i", "b", "r", "a", "r", "y">>, <<"P", "0">>, <<>>,
                           FALSE, <<"1">>)>>}

InitMain ==
    \/ \E args \in ArgBundles :
           InitAll(parse_cli_args(args), TrackTable, MusicTree,
                   <<PlaylistEl(<<"p">>, <<"P", "1">>, <<>>, FALSE, <<"1">>)>>,
                   TRUE, FALSE, FALSE, FullAccess, FALSE, "main")
    \/ \E args \in SlashedBundles, doc \in MainDocs, acc \in AccessKinds,
          root \in BOOLEAN, made \in BOOLEAN :
           InitAll(parse_cli_args(args), TrackTable, MusicTree, doc,
                   root, FALSE, FALSE, acc, made, "main")

\* the steps of main and of the one run of parse_xml it makes
NextMain ==
    \/ MainStart
    \/ BeginUnreadable
    \/ DeniedMakedirs
    \/ Begin
    \/ SkipIgnored
    \/ StartPlaylist
    \/ BeginMembers
    \/ ProcessMember
    \/ WritePlaylist
    \/ DeniedWrite
    \/ Finish
    \/ DeniedSummary
    \/ MainEnd

SpecMain == InitMain /\ [][NextMain]_vars

\* ------------------------------------------------------------------------
\* Properties of the loop over the members (lines 219-279)
\* ------------------------------------------------------------------------

\* the track ID of the member the last pass of the loop was about
MemberId == playlists[ev.idx].tracks[ev.mem]

\* neither the exact check nor the fuzzy search finds the expected path p:
\* fuzzy_search does not come back with a path that exists
Unreconciled(p) ==
    /\ p # <<>>
    /\ ~exists(p)
    /\ \/ fuzzy_search(p, cli_opts.music_dir, dir_sep, TRUE).exc # ""
       \/ ~exists(fuzzy_search(p, cli_opts.music_dir, dir_sep, TRUE).val)

\* the last step was a pass of the member loop for an unreconciled member
MissedMember == ev.op = "member" /\ Unreconciled(ev.check_path)

\* C1: under `warn`, a member whose expected path neither the exact check
\* nor the fuzzy search finds is put into the playlist's and the global
\* miss set, the playlist is marked incomplete, nothing is appended to the
\* output list for it, and the loop goes on with the next member.
C1_WarnMissIsRecordedOmittedAndPassed ==
    (MissedMember /\ cli_opts.check_exists = "warn")
        => /\ Line(ev.check_path) \in pl_tracks_not_found
           /\ Line(ev.check_path) \in all_tracks_not_found
           /\ pl_incomplete
           /\ track_paths = ev.paths_before
           /\ pc = "member"
           /\ exc = ""
           /\ j = ev.mem + 1

\* C2: under `none`, a member whose expected path cannot be reconciled is
\* put into both miss sets, the playlist is marked incomplete, and the
\* expected path is still appended to the output list at its position.
C2_NoneMissIsRecordedAndAppended ==
    (MissedMember /\ cli_opts.check_exists = "none")
        => /\ Line(ev.check_path) \in pl_tracks_not_found
           /\ Line(ev.check_path) \in all_tracks_not_found
           /\ pl_incomplete
           /\ track_paths = Append(ev.paths_before, Line(ev.path))
           /\ pc = "member"
           /\ j = ev.mem + 1

\* C3: under `error`, the pass of the loop that meets the first unreconciled
\* member ends the run: it writes nothing, the files of the playlist it is in
\* are not written, the files written before stay as they are, no later
\* playlist was or will be touched in this run (the only step an aborted
\* run allows is a new start of the program), and a playlist's file is
\* never there while its members are still being resolved.
C3_ErrorMissAbortsBeforeWrite ==
    [][ /\ (ev'.op = "member" /\ Unreconciled(ev'.check_path)
               /\ cli_opts.check_exists = "error")
            => /\ pc' = "aborted"
               /\ exc' # ""
               /\ disk' = disk
               /\ written' = written
               /\ Components(pl_filepath') \notin DOMAIN disk'
               /\ Components(missing_tr_file_path(pl_filepath')) \notin written'
               /\ pl_state'[i'] = "PROCESSING"
               /\ \A k \in (i' + 1)..Len(playlists) : pl_state'[k] = "PENDING"
        /\ pc = "aborted" => run' = run + 1
        /\ pc' = "member" => Components(pl_filepath') \notin DOMAIN disk'
      ]_vars

\* a run under `error` has written a playlist and is then ended by a member
\* of a later playlist that is not on disk
C3_Witness ==
    /\ MissedMember
    /\ cli_opts.check_exists = "error"
    /\ pc = "aborted"
    /\ exc = "FileNotFoundError"
    /\ written # {}
    /\ ev.idx > 1

\* ------------------------------------------------------------------------
\* Properties of the skip of existing outputs and of repeated runs
\* ------------------------------------------------------------------------

\* the walk has returned and the output path computed from it is on disk
OutputOnDisk ==
    /\ WalkReturned
    /\ Components(output_filepath(pl.name, parents_path)) \in DOMAIN disk \cup dirs

\* C4: a real playlist whose output path exists when the playlist is reached
\* is skipped in one step: no file is written or changed (neither the main
\* output nor the .missing file), no member is looked up, and the loop is
\* at the next playlist.
C4_ExistingOutputSkipsPlaylist ==
    [][ OutputOnDisk
            => /\ disk' = disk
               /\ written' = written
               /\ all_tracks_in_pls' = all_tracks_in_pls
               /\ all_tracks_not_found' = all_tracks_not_found
               /\ ev'.op = "exists"
               /\ pl_state'[i] = "SKIPPED_EXISTING"
               /\ pc' = "loop"
               /\ i' = i + 1
      ]_vars

\* a playlist with members was skipped in a first run because a file the
\* user had put at its output path was there
C4_Witness ==
    /\ ev.op = "exists"
    /\ run = 1
    /\ pl_state[ev.idx] = "SKIPPED_EXISTING"
    /\ playlists[ev.idx].tracks # <<>>
    /\ Components(pl_filepath) \in DOMAIN disk
    /\ disk[Components(pl_filepath)] = UserFile

\* the entries of the document that are real playlists
RealPlaylists ==
    {k \in 1..Len(playlists) :
        /\ Playlist(playlists[k]).name \notin pl_ignores
        /\ ~Playlist(playlists[k]).is_folder}

\* C5: a second run with `warn` or `none` on the same document and disk,
\* after a first run that came to its end, skips every real playlist and
\* leaves every file of the playlist directory as it was.
C5_SecondRunChangesNoFile ==
    (/\ run = 2
     /\ pc = "done"
     /\ cli_opts.check_exists \in {"warn", "none"}
     /\ Components(incomplete_playlists_path) \in DOMAIN disk_at_start)
        => /\ \A k \in RealPlaylists : pl_state[k] = "SKIPPED_EXISTING"
           /\ disk = disk_at_start

\* ------------------------------------------------------------------------
\* Properties of the entries written to a playlist's output
\* ------------------------------------------------------------------------

\* the path below the music directory that a path below the container
\* root stands for
HostPath(p) ==
    IF cli_opts.docker_dir # <<>> /\ StartsWith(p, cli_opts.docker_dir)
    THEN cli_opts.music_dir \o SubSeq(p, Len(cli_opts.docker_dir) + 1, Len(p))
    ELSE p

\* the paths read back from a main output file
EntryPaths(file) ==
    IF file.kind = "xml" THEN Range(file.lines)
    ELSE {SubSeq(l, 1, Len(l) - 1) : l \in Range(file.lines)}

\* the main output files written in this run
MainOutputs ==
    {f \in written :
        \/ disk[f].kind = "xml"
        \/ disk[f].kind = "lines" /\ f # Components(incomplete_playlists_path)}

\* the .missing file that belongs to the main output file f
MissingFileOf(f) ==
    [f EXCEPT ![Len(f)] =
        IF xml_output
        THEN <<"p", "l", "a", "y", "l", "i", "s", "t", ".",
               "m", "i", "s", "s", "i", "n", "g">>
        ELSE @ \o <<".", "m", "i", "s", "s", "i", "n", "g">>]

\* p is in the .missing file of f and in the global not-found file
RecordedMissing(p, f) ==
    /\ MissingFileOf(f) \in DOMAIN disk
    /\ Components(tracks_not_found_path) \in DOMAIN disk
    /\ \E q \in {p, HostPath(p)} :
           /\ Line(q) \in disk[MissingFileOf(f)].set
           /\ Line(q) \in disk[Components(tracks_not_found_path)].set

\* C6: after a completed run every path read back from a main output
\* written in it names an existing file (as it stands, or with the
\* container root taken for the music directory) or was recorded as
\* missing in the playlist's .missing file and the global not-found file.
C6_EntriesResolveOrAreRecorded ==
    pc = "done"
        => \A f \in MainOutputs : \A p \in EntryPaths(disk[f]) :
               \/ exists(p)
               \/ exists(HostPath(p))
               \/ RecordedMissing(p, f)

\* the track with this ID has a kind that is no key of FILE_EXT_MAP, or
\* has no Kind at all
UnknownKind(id) ==
    /\ id \in DOMAIN all_tracks
    /\ \/ "Kind" \notin DOMAIN all_tracks[id].str
       \/ \A kv \in FILE_EXT_MAP : kv[1] # Strip(all_tracks[id].str["Kind"])

\* C7: a member whose track has an unknown kind is left out of the output
\* list without any exception, and the loop goes on with the next member.
C7_UnknownKindIsSkipped ==
    (ev.op = "member" /\ UnknownKind(MemberId))
        => /\ exc = ""
           /\ pc = "member"
           /\ j = ev.mem + 1
           /\ track_paths = ev.paths_before

\* the path lines 226-228 expect for a node of the Track Table
ExpectedCheckPath(el) ==
    cli_opts.music_dir
        \o Join(<<Track(el).artist_dir, Track(el).album,
                  Track(el).track_num \o Track(el).name>>, dir_sep)
        \o Track(el).file_ext.ext

\* C8: a member's track ID either resolves to its node of the Track Table
\* (the path worked with is the one of that node) or, when the Track Table
\* has no node for it, the lookup fails with IndexError: nothing is
\* recorded or appended for the member and no path is made up for it.
C8_LookupResolvesOrFails ==
    ev.op = "member"
        => IF MemberId \in DOMAIN all_tracks
           THEN ev.check_path # <<>>
                    => ev.check_path = ExpectedCheckPath(all_tracks[MemberId])
           ELSE /\ pc = "aborted"
                /\ exc = "IndexError"
                /\ ev.check_path = <<>>
                /\ track_paths = ev.paths_before
                /\ j = ev.mem

\* a second member refers to an ID the Track Table does not have, after a
\* first member that was resolved and appended
C8_Witness ==
    /\ ev.op = "member"
    /\ ev.mem = 2
    /\ MemberId \notin DOMAIN all_tracks
    /\ exc = "IndexError"
    /\ Len(track_paths) = 1

\* ------------------------------------------------------------------------
\* Properties of the walk along the parent folders (parsers.py 401-419)
\* ------------------------------------------------------------------------

\* C9: the walk along the parents of a playlist ends within a number of
\* calls bounded by the size of the folder table, whatever the table.
C9_WalkBoundedByFolderTable ==
    pc = "walk" => depth <= Cardinality(DOMAIN pl_folders) + 1

\* where the chain of parent IDs that starts at id ends, looking at most n
\* folders far: at the playlist directory, at an ID that is no key of the
\* folder table, or nowhere
RECURSIVE ChainEnd(_, _)
ChainEnd(id, n) ==
    IF id = <<>> THEN "root"
    ELSE IF id \notin DOMAIN pl_folders THEN "dangling"
    ELSE IF n = 0 THEN "cycle"
    ELSE ChainEnd(pl_folders[id][2], n - 1)

\* the real playlists whose chain of parents leads to an ID that the
\* folder table built by this run does not have
DanglingPlaylists ==
    {k \in RealPlaylists :
        /\ pc # "start"
        /\ ChainEnd(Playlist(playlists[k]).parent_id,
                    Cardinality(DOMAIN pl_folders)) = "dangling"}

\* C10: a playlist whose parent ID, or the parent ID of a folder on its
\* chain, is not empty and no key of the folder table is never written or
\* skipped as existing: once the loop has reached it, the run is in the
\* walk and then aborted by KeyError at that playlist, with no file of the
\* playlist written and no later playlist touched.
C10_DanglingParentAbortsRun ==
    \A k \in DanglingPlaylists :
        /\ pl_state[k] \in {"PENDING", "PROCESSING"}
        /\ pl_state[k] = "PROCESSING"
               => /\ i = k
                  /\ pc \in {"walk", "aborted"}
                  /\ pc = "aborted" => exc = "KeyError"
                  /\ \A m \in (k + 1)..Len(playlists) : pl_state[m] = "PENDING"

\* the walk went up from the playlist through a folder of the table and
\* was ended by the parent ID of that folder, which no folder has
C10_Witness ==
    /\ pc = "aborted"
    /\ exc = "KeyError"
    /\ ev.op = "dangling"
    /\ depth > 1
    /\ ev.idx \in DanglingPlaylists
    /\ written = {}

\* ------------------------------------------------------------------------
\* Properties of the folder path (parsers.py 372-419)
\* ------------------------------------------------------------------------

\* the folder-flagged entries of the document
DocFolders == {k \in 1..Len(playlists) : "Folder" \in playlists[k].keys}

\* the persistent ID, the parent ID and the name the document gives entry k
DocId(k) ==
    IF "Playlist Persistent ID" \in DOMAIN playlists[k].str
    THEN playlists[k].str["Playlist Persistent ID"] ELSE <<>>

DocParent(k) ==
    IF "Parent Persistent ID" \in DOMAIN playlists[k].str
    THEN playlists[k].str["Parent Persistent ID"] ELSE <<>>

DocName(k) == playlists[k].str["Name"]

\* the folder of the document with the persistent ID id
DocFolder(id) == CHOOSE k \in DocFolders : DocId(k) = id

\* the chain of parents that starts at id leads, through at most n folders
\* of the document, to an entry without a parent
RECURSIVE Resolvable(_, _)
Resolvable(id, n) ==
    \/ id = <<>>
    \/ /\ n > 0
       /\ \E k \in DocFolders : DocId(k) = id
       /\ Resolvable(DocParent(DocFolder(id)), n - 1)

\* the names of the folders on a resolvable chain, the outermost first
RECURSIVE AncestorNames(_)
AncestorNames(id) ==
    IF id = <<>> THEN <<>>
    ELSE Append(AncestorNames(DocParent(DocFolder(id))), DocName(DocFolder(id)))

\* each name of a list followed by a separator, one after the other
RECURSIVE Segments(_)
Segments(names) ==
    IF names = <<>> THEN <<>>
    ELSE Head(names) \o <<"/">> \o Segments(Tail(names))

\* the walk for the playlist of the last step returned a folder path
FolderPathBuilt == ev.op \in {"members", "exists"}

\* C11: for a playlist whose chain of parent folders is acyclic and fully
\* resolvable, the folder path is the name and a separator of each ancestor
\* folder, the outermost first and the direct parent last; for a playlist
\* without a parent ID it is the empty string.
C11_FolderPathIsRootToLeaf ==
    (FolderPathBuilt /\ Resolvable(DocParent(ev.idx), Cardinality(DocFolders)))
        => /\ path_so_far = Segments(AncestorNames(DocParent(ev.idx)))
           /\ pl_filepath = output_filepath(DocName(ev.idx),
                                            Segments(AncestorNames(DocParent(ev.idx))))
           /\ DocParent(ev.idx) = <<>> => path_so_far = <<>>

\* the playlist is in a folder that is in another folder of another name
C11_Witness ==
    /\ ev.op = "members"
    /\ Resolvable(DocParent(ev.idx), Cardinality(DocFolders))
    /\ Len(AncestorNames(DocParent(ev.idx))) = 2
    /\ AncestorNames(DocParent(ev.idx))[1] # AncestorNames(DocParent(ev.idx))[2]
    /\ path_so_far = AncestorNames(DocParent(ev.idx))[1] \o <<"/">>
                         \o AncestorNames(DocParent(ev.idx))[2] \o <<"/">>

\* ------------------------------------------------------------------------
\* Properties of folders and ignored names (__main__.py 155-185)
\* ------------------------------------------------------------------------

\* the entries that are folder-flagged or have a name of the ignore list
NoPlaylists ==
    {k \in 1..Len(playlists) :
        \/ DocName(k) \in pl_ignores
        \/ "Folder" \in playlists[k].keys}

\* the last step wrote the output of a playlist that is in folders
WroteNested ==
    /\ ev.op = "write"
    /\ Resolvable(DocParent(ev.idx), Cardinality(DocFolders))

\* C12: an entry that is folder-flagged or has a name of the ignore list is
\* passed over by the loop, so that no step writes a main output file or a
\* .missing file for it; every folder-flagged entry is in the folder table
\* with its name and parent ID, and the name of every folder above a
\* written playlist is a segment of the path of that playlist's output.
C12_FoldersAreSegmentsNotOutputs ==
    /\ \A k \in NoPlaylists : pl_state[k] \in {"PENDING", "SKIP"}
    /\ ev.op \in {"write", "members", "member", "exists"} => ev.idx \notin NoPlaylists
    /\ pc # "start" =>
           \A k \in DocFolders :
               /\ DocId(k) \in DOMAIN pl_folders
               /\ pl_folders[DocId(k)] = <<DocName(k), DocParent(k)>>
    /\ WroteNested =>
           /\ Components(pl_filepath) \in DOMAIN disk
           /\ \A name \in Range(AncestorNames(DocParent(ev.idx))) :
                  name \in Range(Components(pl_filepath))

\* a playlist below two folders was written after both folders were
\* passed over
C12_Witness ==
    /\ WroteNested
    /\ Len(AncestorNames(DocParent(ev.idx))) = 2
    /\ \A k \in DocFolders : pl_state[k] = "SKIP"
    /\ Components(pl_filepath) \in written

\* ------------------------------------------------------------------------
\* Properties of fuzzy_search (parsers.py 71-170)
\* ------------------------------------------------------------------------

\* the last step was a pass of the member loop that called fuzzy_search
FuzzySearched ==
    /\ ev.op = "member"
    /\ ev.check_path # <<>>
    /\ ~exists(ev.check_path)

\* the first segment of the expected path below the music directory
FirstSegment(p) == Split(RemoveAll(p, cli_opts.music_dir), "/")[1]

\* the places of a listing whose entry is equal to seg ignoring case, and
\* those whose lowercased entry contains the lowercased seg
EqualPlaces(l, seg) == {k \in 1..Len(l) : Lower(l[k]) = Lower(seg)}

ContainPlaces(l, seg) == {k \in 1..Len(l) : Contains(Lower(seg), Lower(l[k]))}

Last(S) == CHOOSE k \in S : \A m \in S : m <= k

\* the choice among the entries l for the segment seg follows the order of
\* preference: equal ignoring case, else the last that contains, else seg
PreferredChoice(l, seg, chosen) ==
    IF EqualPlaces(l, seg) # {} THEN Lower(chosen) = Lower(seg)
    ELSE IF ContainPlaces(l, seg) # {} THEN chosen = l[Last(ContainPlaces(l, seg))]
    ELSE chosen = seg

\* C13: for a segment without an exact child, the fuzzy descent chooses an
\* entry that is equal to the segment ignoring case if there is one, else
\* (contains mode) the last entry of the listing whose lowercased name
\* contains the lowercased segment, else the segment itself; an entry that
\* only contains the segment never displaces one that is equal to it.
C13_EqualMatchBeatsSubstring ==
    (/\ FuzzySearched
     /\ listdir(cli_opts.music_dir).exc = ""
     /\ ~exists(cli_opts.music_dir \o FirstSegment(ev.check_path)))
        => PreferredChoice(listdir(cli_opts.music_dir).val,
                           FirstSegment(ev.check_path),
                           best_dir_to_add(listdir(cli_opts.music_dir).val,
                                           Lower(FirstSegment(ev.check_path)),
                                           FirstSegment(ev.check_path), TRUE))

\* C14: whatever the expected path and the music directory tree (a music
\* root that does not exist and a segment that names a regular file
\* included), fuzzy_search returns: either the empty string or a path that
\* exists on disk, and it never ends in any other way.
C14_FuzzySearchReturnsFoundOrEmpty ==
    FuzzySearched
        => /\ fuzzy_search(ev.check_path, cli_opts.music_dir, dir_sep, TRUE).exc = ""
           /\ \/ fuzzy_search(ev.check_path, cli_opts.music_dir, dir_sep, TRUE).val = <<>>
              \/ exists(fuzzy_search(ev.check_path, cli_opts.music_dir, dir_sep, TRUE).val)

\* ------------------------------------------------------------------------
\* Properties of the paths of a container (__main__.py 224-279)
\* ------------------------------------------------------------------------

\* the last step appended an entry to the output list of the playlist
Appended ==
    /\ ev.op = "member"
    /\ Len(track_paths) = Len(ev.paths_before) + 1

\* the entry without its newline
LastEntry == SubSeq(track_paths[Len(track_paths)], 1, Len(track_paths[Len(track_paths)]) - 1)

\* p is the root followed by the suffix of the expected path below the
\* music directory, as it was checked or with the case that is on disk
UnderRoot(p, root, check_path) ==
    /\ StartsWith(p, root)
    /\ Lower(SubSeq(p, Len(root) + 1, Len(p)))
           = Lower(SubSeq(check_path, Len(cli_opts.music_dir) + 1, Len(check_path)))

\* C15: with a container root configured, every path appended to the
\* output list of a playlist is the container root followed by the
\* relative suffix that was checked under the music root, for a member
\* found by the exact check and for one found only by the fuzzy search.
C15_ContainerRootReplacesMusicRoot ==
    (Appended /\ cli_opts.docker_dir # <<>>)
        => UnderRoot(LastEntry, cli_opts.docker_dir, ev.check_path)

\* ------------------------------------------------------------------------
\* Properties of the fields of a track (parsers.py 233-340, sanitizers.py)
\* ------------------------------------------------------------------------

\* the last step was a pass of the member loop that built a Track of a
\* node of the Track Table
TrackBuilt == ev.op = "member" /\ MemberId \in DOMAIN all_tracks

\* the node of that track
MemberEl == all_tracks[MemberId]

BadChars == {"/", "\\", "\"", "'", "?", ":", "<", ">", "*", "|"}

\* s with "_" for each bad character and, unless dots are kept, for a "."
\* at either end
PathText(s, keep_dots) ==
    [k \in 1..Len(s) |->
        IF s[k] \in BadChars \/ (~keep_dots /\ s[k] = "." /\ k \in {1, Len(s)})
        THEN "_" ELSE s[k]]

\* the stripped text of a <string> attribute of el, "" when it is absent
TextOf(el, attr) == IF attr \in DOMAIN el.str THEN Strip(el.str[attr]) ELSE <<>>

\* the first attribute of the priority list with a text that is not empty
FirstArtistAttr(el) ==
    IF TextOf(el, "Sort Album Artist") # <<>> THEN "Sort Album Artist"
    ELSE IF TextOf(el, "Album Artist") # <<>> THEN "Album Artist"
    ELSE IF TextOf(el, "Sort Artist") # <<>> THEN "Sort Artist"
    ELSE "Artist"

ExpectedArtistDir(el) ==
    IF "Compilation" \in el.keys
    THEN <<"C", "o", "m", "p", "i", "l", "a", "t", "i", "o", "n", "s">>
    ELSE IF TextOf(el, FirstArtistAttr(el)) = <<>>
    THEN <<"U", "n", "k", "n", "o", "w", "n", " ", "A", "r", "t", "i", "s", "t">>
    ELSE IF TextOf(el, FirstArtistAttr(el)) = VariousArtists /\ FirstArtistAttr(el) # "Artist"
    THEN <<"V", "A", "R", "I", "O", "U", "S", " ", "A", "R", "T", "I", "S", "T", "S">>
    ELSE PathText(TextOf(el, FirstArtistAttr(el)), FALSE)

\* C16: the artist directory of every track follows the precedence
\* "Compilations" for a Compilation key, else the first non-empty of Sort
\* Album Artist, Album Artist and Sort Artist with "Various Artists" as
\* "VARIOUS ARTISTS", else the non-empty Artist, else "Unknown Artist", and
\* is never the empty string.
C16_ArtistDirPrecedence ==
    TrackBuilt
        => /\ Track(MemberEl).exc = ""
           /\ Track(MemberEl).artist_dir = ExpectedArtistDir(MemberEl)
           /\ Track(MemberEl).artist_dir # <<>>
           /\ StartsWith(ev.check_path,
                         cli_opts.music_dir \o ExpectedArtistDir(MemberEl) \o <<"/">>)

\* the text of an <integer> attribute of el, "" when it is absent
NumberOf(el, attr) == IF attr \in DOMAIN el.int THEN el.int[attr] ELSE <<>>

\* the disc number and "-" for an album of several discs
ExpectedDisc(el) ==
    IF /\ NumberOf(el, "Disc Count") # <<>>
       /\ ParseInt(NumberOf(el, "Disc Count")) > 1
       /\ NumberOf(el, "Disc Number") # <<>>
    THEN NumberOf(el, "Disc Number") \o <<"-">>
    ELSE <<>>

\* p is the number n written with two digits or more, and a blank
IsPadded(p, n) ==
    /\ Len(p) = (IF Len(n) < 2 THEN 2 ELSE Len(n)) + 1
    /\ p[Len(p)] = " "
    /\ \A k \in 1..(Len(p) - 1) : p[k] \in Range(Digits)
    /\ ParseInt(SubSeq(p, 1, Len(p) - 1)) = ParseInt(n)

\* prefix is the disc part followed by the padded track number, if any
IsTrackPrefix(prefix, el) ==
    /\ StartsWith(prefix, ExpectedDisc(el))
    /\ IF NumberOf(el, "Track Number") = <<>>
       THEN prefix = ExpectedDisc(el)
       ELSE IsPadded(SubSeq(prefix, Len(ExpectedDisc(el)) + 1, Len(prefix)),
                     NumberOf(el, "Track Number"))

\* the file name at the end of the expected path of the last step
CheckedFileName == Components(ev.check_path)[Len(Components(ev.check_path))]

\* C17: the track prefix of every track is the track number padded with
\* zeros to two digits or more and followed by one blank when there is a
\* track number, preceded by the disc number and "-" exactly when the disc
\* count is greater than 1 and there is a disc number; with a disc count
\* of 1 or none there is no disc part.
C17_TrackPrefix ==
    TrackBuilt
        => /\ IsTrackPrefix(get_track_num(MemberEl), MemberEl)
           /\ ev.check_path # <<>>
                  => CheckedFileName
                         = get_track_num(MemberEl) \o Track(MemberEl).name
                               \o Track(MemberEl).file_ext.ext
           /\ NumberOf(MemberEl, "Disc Count") \in {<<>>, <<"1">>}
                  => ~Contains(<<"-">>, get_track_num(MemberEl))

\* disc 1 of 2, track 4: the expected file name is "1-04 n.mp3"
C17_Witness ==
    /\ TrackBuilt
    /\ NumberOf(MemberEl, "Disc Count") = <<"2">>
    /\ NumberOf(MemberEl, "Disc Number") = <<"1">>
    /\ NumberOf(MemberEl, "Track Number") = <<"4">>
    /\ CheckedFileName = <<"1", "-", "0", "4", " ", "n", ".", "m", "p", "3">>

\* sanitize_path returns for the text s of the attribute attr, and the
\* result has the length of s, "_" for each bad character (and for a dot
\* at either end unless attr is "Name"), every other character as it was
SanitizedAsSpecified(s, attr) ==
    /\ sanitize_path(s, attr).exc = ""
    /\ sanitize_path(s, attr).val = PathText(s, attr = "Name")
    /\ Len(sanitize_path(s, attr).val) = Len(s)

SanitizedTwice(s, attr) == sanitize_path(sanitize_path(s, attr).val, attr)

\* C18: for every text, the empty one included, sanitize_path returns a
\* text of the same length with "_" for each of / \ " ' ? : < > * | and,
\* for a field other than "Name", for a dot at either end, every other
\* character unchanged; sanitizing twice gives what sanitizing once gives.
C18_SanitizePathTotalAndIdempotent ==
    TrackBuilt
        => \A attr \in DOMAIN MemberEl.str :
               /\ SanitizedAsSpecified(TextOf(MemberEl, attr), attr)
               /\ SanitizedTwice(TextOf(MemberEl, attr), attr)
                      = sanitize_path(TextOf(MemberEl, attr), attr)

\* ------------------------------------------------------------------------
\* Properties of the M3U file of a playlist (__main__.py 219-289)
\* ------------------------------------------------------------------------

\* the last step wrote the M3U file of a playlist
WroteM3u == ev.op = "write" /\ ~xml_output

\* the lines of that file
M3uLines == disk[Components(pl_filepath)].lines

\* the member with track ID id is kept: it is found, by the exact check or
\* by the fuzzy search, or the policy is not `warn`
Kept(id) ==
    ~(cli_opts.check_exists = "warn" /\ Unreconciled(ExpectedCheckPath(all_tracks[id])))

\* the places of the kept members of the playlist k, in the order of the
\* source playlist
KeptMembers(k) ==
    SelectSeq([n \in 1..Len(playlists[k].tracks) |-> n],
              LAMBDA n : Kept(playlists[k].tracks[n]))

FileNameOf(p) == Components(p)[Len(Components(p))]

\* l is one path that ends with the only newline in it and names the file
\* of the track with ID id
IsLineOf(l, id) ==
    /\ Len(l) > 1
    /\ l[Len(l)] = "\n"
    /\ \A n \in 1..(Len(l) - 1) : l[n] # "\n"
    /\ FileNameOf(SubSeq(l, 1, Len(l) - 1))
           = FileNameOf(ExpectedCheckPath(all_tracks[id]))

\* C19: the M3U file written for a playlist holds exactly one path that
\* ends with a newline for each member that was kept, in the order of the
\* members in the source playlist: the fuzzy search, the members left out
\* and the misses neither reorder nor repeat a line.
C19_M3uLinesFollowMembers ==
    WroteM3u
        => /\ Len(M3uLines) = Len(KeptMembers(ev.idx))
           /\ \A n \in 1..Len(KeptMembers(ev.idx)) :
                  n <= Len(M3uLines)
                      => IsLineOf(M3uLines[n],
                                  playlists[ev.idx].tracks[KeptMembers(ev.idx)[n]])

\* under `none` a playlist of a member that only the fuzzy search finds
\* and of one that is not found was written with their two lines, the
\* corrected path first
C19_Witness ==
    /\ WroteM3u
    /\ cli_opts.check_exists = "none"
    /\ playlists[ev.idx].tracks = <<"2", "3">>
    /\ Len(M3uLines) = 2
    /\ FileNameOf(M3uLines[1]) = <<"t", ".", "m", "p", "3", "\n">>
    /\ FileNameOf(M3uLines[2]) = <<"u", ".", "w", "a", "v", "\n">>

\* ------------------------------------------------------------------------
\* Properties of the console summary (__main__.py 151-181 and 322-326)
\* ------------------------------------------------------------------------

\* the run came to the two prints of the summary
SummaryPrinted == pc = "done" /\ ev.op = "finish"

\* the expected paths of the members of the playlists that this run went
\* through member by member
ReferencedPaths ==
    UNION {{ExpectedCheckPath(all_tracks[playlists[k].tracks[n]]) :
               n \in 1..Len(playlists[k].tracks)} :
             k \in {w \in RealPlaylists : pl_state[w] = "WRITTEN"}}

\* C20: the playlist total of the console summary is the number of real
\* playlists of the document (entries that are neither folders nor named
\* in the ignore list), however many ignored names and folders the
\* document has, and the track total is the number of unique expected
\* paths that the processed playlists refer to.
C20_SummaryTotals ==
    SummaryPrinted
        => /\ total_playlists = Cardinality(RealPlaylists)
           /\ Cardinality(all_tracks_in_pls) = Cardinality(ReferencedPaths)

\* ------------------------------------------------------------------------
\* Properties of the two summary files (__main__.py 281-320)
\* ------------------------------------------------------------------------

\* the run came to its end and wrote the two summary files
RunCompleted == pc = "done" /\ ev.op = "finish"

\* the playlists whose members this run went through
Processed == {k \in 1..Len(playlists) : pl_state[k] = "WRITTEN"}

\* the main output file of the playlist k and its sibling .missing file
OutputOf(k) == output_filepath(DocName(k), Segments(AncestorNames(DocParent(k))))

MissingOf(k) == Components(missing_tr_file_path(OutputOf(k)))

\* the lines of the .missing file of the playlist k
MissSet(k) == disk[MissingOf(k)].set

IncompleteList == disk[Components(incomplete_playlists_path)].lines

\* C21: at the end of a completed run 00incomplete_playlists.txt lists the
\* name of a playlist if and only if the run processed that playlist and
\* its .missing file is not empty, and 00tracks_not_found.m3u holds the
\* union of the miss sets of the playlists the run processed.
C21_SummaryFilesMatchMissFiles ==
    RunCompleted
        => /\ \A k \in Processed : MissingOf(k) \in DOMAIN disk
           /\ Range(IncompleteList)
                  = {DocName(k) \o <<"\n">> : k \in {p \in Processed : MissSet(p) # {}}}
           /\ disk[Components(tracks_not_found_path)].set
                  = UNION {MissSet(k) : k \in Processed}

\* under `warn`, a playlist in a folder with one member on disk and one
\* not: its output has one path, its .missing file one path and the
\* incomplete list its name
C21_Witness ==
    /\ RunCompleted
    /\ cli_opts.check_exists = "warn"
    /\ \E k \in Processed :
           /\ Len(AncestorNames(DocParent(k))) = 1
           /\ playlists[k].tracks = <<"1", "3">>
           /\ Len(disk[Components(OutputOf(k))].lines) = 1
           /\ Cardinality(MissSet(k)) = 1
           /\ IncompleteList = <<DocName(k) \o <<"\n">>>>

\* ------------------------------------------------------------------------
\* Properties of a whole run (__main__.py 171-320)
\* ------------------------------------------------------------------------

\* the exceptions of a document that is not well-formed (a parent ID or a
\* track ID that refers to nothing, a cycle of folders) and of a playlist
\* total of 0: none of them is a condition of a track or of a playlist
NoTrackCondition == {"KeyError", "RecursionError", "IndexError", "ZeroDivisionError"}

\* C22: under `warn` or `none` no condition of a track or of a playlist (a
\* file that is missing, a kind without an extension, an output that
\* exists) ends the run: the run goes through every playlist of the
\* document and comes to write both summary files.
C22_WarnAndNoneNeverAbort ==
    cli_opts.check_exists \in {"warn", "none"}
        => /\ pc = "aborted" => exc \in NoTrackCondition
           /\ pc = "done"
                  => /\ \A k \in 1..Len(playlists) : pl_state[k] # "PENDING"
                     /\ Components(incomplete_playlists_path) \in written
                     /\ Components(tracks_not_found_path) \in written

\* ------------------------------------------------------------------------
\* Properties of write_xml_playlist (__main__.py 63-116)
\* ------------------------------------------------------------------------

\* the last step wrote the playlist.xml of a playlist
WroteXml == ev.op = "write" /\ xml_output

\* the texts of the Path elements a parser reads from that file, in the
\* order of the PlaylistItem elements
PathTexts == disk[Components(pl_filepath)].lines

\* C23: for every path given to write_xml_playlist, a path with `&`, `<`
\* or `>` included, the text of its Path element read back from the
\* written playlist.xml by an XML parser is the path itself (it is
\* escaped exactly once), and the PlaylistItem elements are in the order
\* of the list of paths.
C23_XmlPathsRoundTrip ==
    WroteXml
        => /\ Len(PathTexts) = Len(track_paths)
           /\ \A n \in 1..Len(track_paths) :
                  n <= Len(PathTexts)
                      => PathTexts[n] \o <<"\n">> = track_paths[n]

\* ------------------------------------------------------------------------
\* Properties of the states of a playlist (__main__.py 171-308)
\* ------------------------------------------------------------------------

\* the steps a playlist entry takes from one state to the next
StateSteps ==
    {<<"PENDING", "SKIP">>, <<"PENDING", "PROCESSING">>,
     <<"PROCESSING", "SKIPPED_EXISTING">>, <<"PROCESSING", "WRITTEN">>}

\* both files of the playlist k are on disk
BothFilesOnDisk(k) ==
    /\ Components(OutputOf(k)) \in DOMAIN disk
    /\ MissingOf(k) \in DOMAIN disk
    /\ disk[MissingOf(k)].kind = "set"

\* in a completed run every entry has come to one of the three last
\* states, and a playlist that is WRITTEN has both of its files
EndStates ==
    /\ pc = "done" =>
           \A k \in 1..Len(playlists) :
               pl_state[k] \in {"SKIP", "SKIPPED_EXISTING", "WRITTEN"}
    /\ \A k \in 1..Len(playlists) :
           /\ pl_state[k] = "SKIP" <=> (k \in NoPlaylists /\ pl_state[k] # "PENDING")
           /\ pl_state[k] = "WRITTEN" => BothFilesOnDisk(k)

\* within a run an entry changes its state only along StateSteps, and the
\* step to SKIP touches neither a file nor a directory
StepsOfState ==
    run' = run =>
        \A k \in 1..Len(playlists) :
            pl_state'[k] # pl_state[k]
                => /\ <<pl_state[k], pl_state'[k]>> \in StateSteps
                   /\ pl_state'[k] = "SKIP" => (disk' = disk /\ dirs' = dirs)

\* C24: in every completed run each playlist entry ends in exactly one of
\* SKIP (an ignored name or a folder), SKIPPED_EXISTING and WRITTEN; SKIP
\* is decided before anything is done for the entry, SKIPPED_EXISTING and
\* WRITTEN are reached from PROCESSING only, and a playlist that is
\* WRITTEN has its main output file and its .missing file on disk, the
\* latter also when its miss set is empty.
C24_PlaylistStateMachine == []EndStates /\ [][StepsOfState]_vars

\* a completed run with an ignored entry, a playlist that was written
\* without a miss and has an empty .missing file, and a playlist that
\* was skipped because its output was there
C24_Witness ==
    /\ pc = "done"
    /\ \E k \in 1..Len(playlists) : pl_state[k] = "SKIP"
    /\ \E k \in 1..Len(playlists) : pl_state[k] = "SKIPPED_EXISTING"
    /\ \E k \in 1..Len(playlists) :
           /\ pl_state[k] = "WRITTEN"
           /\ BothFilesOnDisk(k)
           /\ MissSet(k) = {}

\* the files of the music tree whose path is the expected path p up to the
\* case of letters
SameButCase(p) ==
    {f \in music_files :
        /\ Len(f) = Len(BelowMusicDir(Components(cli_opts.music_dir), Components(p)))
        /\ \A n \in 1..Len(f) :
               Lower(f[n])
                   = Lower(BelowMusicDir(Components(cli_opts.music_dir), Components(p))[n])}

\* the path of a file of the music tree
PathOfFile(f) == cli_opts.music_dir \o Join(f, "/")

\* the path p without its last segment
DirectoryOf(p) == Join(SubSeq(Split(p, "/"), 1, Len(Split(p, "/")) - 1), "/")

\* C25: when the expected path differs from the path of a file that exists
\* only by the case of letters in one or more segments, the file name
\* included, the search comes back with the real path of such a file and
\* not with NotFound.  Stated for the expected paths whose directory
\* exists as it is written, so that the file name is what differs.
C25_CaseOnlyDifferenceIsFound ==
    (/\ FuzzySearched
     /\ SameButCase(ev.check_path) # {}
     /\ exists(DirectoryOf(ev.check_path)))
        => /\ fuzzy_search(ev.check_path, cli_opts.music_dir, dir_sep, TRUE).exc = ""
           /\ \E f \in SameButCase(ev.check_path) :
                  fuzzy_search(ev.check_path, cli_opts.music_dir, dir_sep, TRUE).val
                      = PathOfFile(f)

\* ------------------------------------------------------------------------
\* Properties of main (lines 330-405)
\* ------------------------------------------------------------------------

\* C26: outside debug mode, once parse_xml has raised (a miss under the
\* policy `error`, an unreadable document, a permission error on a
\* directory, anything unexpected), main does not print "Conversion
\* complete!" and does not return normally
C26_FatalConditionAborts ==
    (pc = "complete" /\ ~cli_opts.debug_mode) => exc = ""

\* the directory options of the option dict
path_args == {"playlist_dir", "music_dir", "docker_dir"}

\* C27: ensure_slash returns without error for every option dict of
\* parse_cli_args, also when music_dir and docker_dir are omitted, and
\* afterwards every directory option that is not empty ends with the
\* separator (playlist_dir, whose default is not empty, is not empty)
C27_EnsureSlashAcceptsEveryBundle ==
    (ev.op = "slash" /\ cli_opts.playlist_dir # <<>>) =>
        /\ exc = ""
        /\ \A arg \in path_args :
               cli_opts[arg] # <<>> => cli_opts[arg][Len(cli_opts[arg])] = dir_sep

\* ------------------------------------------------------------------------
\* Properties of the sets of referenced and of missed tracks
\* ------------------------------------------------------------------------

\* an entry of a miss set without its line terminator
Unterminated(entry) == SubSeq(entry, 1, Len(entry) - 1)

\* C28: at every point of a run every entry of the global miss set,
\* without its line terminator, is in the set of the tracks referenced, and
\* every entry of the miss set of the playlist is in the global miss set;
\* so the number of tracks not found is at most the number of tracks
\* referenced
C28_MissesAreReferenced ==
    /\ \A entry \in all_tracks_not_found :
           /\ entry[Len(entry)] = "\n"
           /\ Unterminated(entry) \in all_tracks_in_pls
    /\ pl_tracks_not_found \subseteq all_tracks_not_found
    /\ Cardinality(all_tracks_not_found) <= Cardinality(all_tracks_in_pls)

\* a member was recorded as missed in a playlist whose other member was
\* found: one entry in each miss set, two tracks referenced
C28_Witness ==
    /\ ev.op = "member"
    /\ pl_tracks_not_found # {}
    /\ Cardinality(all_tracks_not_found) = 1
    /\ Cardinality(all_tracks_in_pls) = 2

\* ------------------------------------------------------------------------
\* Properties of the output paths of one run
\* ------------------------------------------------------------------------

\* the real playlists of the document are distinct: no two have the same
\* persistent ID
DistinctPlaylists ==
    \A a, b \in RealPlaylists : a # b => DocId(a) # DocId(b)

\* C29: a run that starts with an empty playlist directory and comes to
\* its end leaves every real playlist of the document WRITTEN and none
\* SKIPPED_EXISTING: no two distinct real playlists have the same output
\* path
C29_EmptyDirectoryWritesEveryPlaylist ==
    (RunCompleted /\ disk_at_start = <<>> /\ DistinctPlaylists) =>
        \A k \in RealPlaylists : pl_state[k] = "WRITTEN"

\* ------------------------------------------------------------------------
\* Properties of the progress bar (line 308)
\* ------------------------------------------------------------------------

\* C30: whenever print_progress_bar is called after a playlist was
\* written, the total of playlists passed to it is at least 1 and no
\* division of the progress computation has a zero divisor, whatever
\* ignored names the document holds
C30_ProgressTotalIsPositive ==
    ev.op = "write" => (total_playlists >= 1 /\ exc # "ZeroDivisionError")

====
